---- MODULE Spec2Model ----
(***************************************************************************)
(* django-entity: the entity mirror (Entity, EntityKind,                   *)
(* EntityRelationship) and the sync passes of entity/sync.py that keep it  *)
(* in line with the registered source models.                              *)
(*                                                                         *)
(* A source instance is named by the pair <<content type id, pk>>.  The    *)
(* three mirror tables are sets of rows; a sync pass runs its three        *)
(* phases as three transactions, each one statement after the other, and   *)
(* each statement that takes row locks one row after the other, under the  *)
(* READ COMMITTED rules of the database the SQL of the code is written     *)
(* for: a transaction sees committed rows and its own writes, a row lock   *)
(* is held until commit, an INSERT .. ON CONFLICT waits for an             *)
(* uncommitted row with the same unique key, and the foreign key check of  *)
(* a written Entity row key-shares the EntityKind row it points at.  A     *)
(* deadlock ends with the OperationalError that                            *)
(* transaction_atomic_with_retry catches.                                  *)
(*                                                                         *)
(* Spec runs one caller at a time; SpecConc runs two callers in separate   *)
(* processes while the source changes; SpecFaults is Spec with statements  *)
(* that fail; SpecDefer is one caller that runs functions decorated with   *)
(* defer_entity_syncing and suppress_entity_syncing.                       *)
(* SpecKinds resolves entity kinds alone and SpecKindOff is Spec with      *)
(* entity kinds switched off and on; SpecRegistry is the registry of       *)
(* entity/config.py and the watcher loop of sync_entities_watching;        *)
(* SpecUpsert is the upsert statement of entity/db.py over one table of    *)
(* an activatable model; SpecGroups is EntityGroup.get_all_entities over   *)
(* a small fixture of entities.  SpecOrder is Spec over a mirror that a    *)
(* pass has written; SpecTask is Spec with passes started by               *)
(* SyncEntitiesTask.run; SpecSignals is Spec with source rows deleted by   *)
(* other processes under the post_delete handler.                          *)
(***************************************************************************)
EXTENDS Integers, Sequences, FiniteSets, TLC

\* ------------------------------------------------------------------ bounds
MaxPasses == 2
MaxSrcWrites == 1
MaxArgs == 1
MaxDepth == 2
MaxCalls == 2
MaxInstances == 2
MaxKindSeq == 3
MaxRegs == 3
MaxExtracted == 2
MaxRows == 2
MaxMemberships == 2

\* --------------------------------------------------- registered source models
\* the content type ids of the three models, in the order tests/models.py
\* defines them
CT_TeamGroup == 1
CT_Team == 2
CT_Account == 3

\* the source instances of the model: an account, a team and a team group
SrcIds == {<<CT_Account, 1>>, <<CT_Team, 1>>, <<CT_TeamGroup, 1>>}

Procs == {1, 2}

\* the model classes whose instances a config may report as super entities
SuperTypes(ct) ==
    IF ct = CT_Account THEN {CT_Team, CT_TeamGroup}
    ELSE IF ct = CT_Team THEN {CT_TeamGroup}
    ELSE {}

AllowedSupers(x) == {s \in SrcIds : s[1] \in SuperTypes(x[1])}

\* a source row: is_active, email (accounts), and the rows its foreign keys
\* point at; an object read through the registered queryset also carries the
\* is_active of its team (select_related)
NoRow == [exists |-> FALSE, active |-> FALSE, data |-> 0, sup |-> {}]

NoObj == [exists |-> FALSE, active |-> FALSE, data |-> 0, sup |-> {},
          team_active |-> FALSE]

SrcRows(x) ==
    [exists : {TRUE},
     active : IF x[1] = CT_TeamGroup THEN {TRUE} ELSE BOOLEAN,
     data : IF x[1] = CT_Account THEN {0, 1} ELSE {0},
     sup : SUBSET AllowedSupers(x)]

\* ------------------------------------------------------------- EntityConfig
\* AccountConfig, TeamConfig and TeamGroupConfig of the test models
get_display_name(x, obj) ==
    IF x[1] = CT_Team THEN <<"team">> ELSE <<"str", x[1], obj.data>>

\* the kind name '<app_label>.<model>' of a content type, as its rank among
\* 'tests.account' < 'tests.team' < 'tests.teamgroup'
kind_name(ct) ==
    IF ct = CT_Account THEN 1 ELSE IF ct = CT_Team THEN 2 ELSE 3

get_entity_kind(x, obj) == <<kind_name(x[1]), kind_name(x[1])>>

get_entity_meta(x, obj) ==
    IF x[1] = CT_Account
    THEN <<"email", obj.data, "team", {s \in obj.sup : s[1] = CT_Team},
           "team_is_active", obj.team_active>>
    ELSE <<"None">>

get_is_active(x, obj) == obj.active

\* the (sub id, super id) pairs the configs report for a collection of objects
get_super_entities(objs) ==
    {e \in SrcIds \X SrcIds : objs[e[1]].exists /\ e[2] \in objs[e[1]].sup}

\* ------------------------------------------------------------------ helpers
Min(S) == CHOOSE m \in S : \A n \in S : m <= n

RECURSIVE SortIds(_)
SortIds(S) == IF S = {} THEN <<>> ELSE <<Min(S)>> \o SortIds(S \ {Min(S)})

\* tuple order of two pairs, the order sorted() gives tuples of unique fields
PairLE(a, b) == a[1] < b[1] \/ (a[1] = b[1] /\ a[2] <= b[2])

MinPair(S) == CHOOSE m \in S : \A n \in S : PairLE(m, n)

RECURSIVE sort_by_unique_fields(_)
sort_by_unique_fields(S) ==
    IF S = {} THEN <<>>
    ELSE <<MinPair(S)>> \o sort_by_unique_fields(S \ {MinPair(S)})

Range(s) == {s[i] : i \in 1..Len(s)}

VARIABLES
    src,        \* the source tables: SrcIds -> row
    entities,   \* committed rows of Entity
    rels,       \* committed rows of EntityRelationship
    kinds,      \* committed rows of EntityKind
    seqs,       \* the primary key sequences of the three tables
    pass,       \* per process: the running EntitySyncer and its transaction
    hist,       \* bookkeeping: passes started, source writes, the previous pass
    caller,     \* process 1: sync_entities.defer, .buffer and .suppress, and
                \* the decorated functions it is running
    registry,   \* an EntityRegistry: _entity_registry, _entity_watching
    watch,      \* the sync_entities_watching call in progress or returned
    db,         \* a table that entity.db.upsert is called on, and what the
                \* last call returned
    groups      \* the EntityGroupMembership rows, and what the last
                \* get_all_entities call returned

vars == <<src, entities, rels, kinds, seqs, pass, hist, caller,
          registry, watch, db, groups>>

IdlePass == [
    pc |-> "idle",
    sync_all |-> FALSE,
    specific |-> FALSE,
    args |-> {},
    model_objs_map |-> [x \in SrcIds |-> NoObj],
    model_objs_by_ctype |-> {},
    model_ids_to_sync |-> {},
    super_entities_by_ctype |-> {},
    entity_kinds_map |-> {},
    entities_map |-> {},
    original_entity_ids |-> {},
    entity_relationships |-> {},
    initial_state |-> {},
    rows |-> <<>>,
    todo |-> <<>>,
    upserted |-> {},
    tab |-> "",
    locks |-> {},
    forupdate |-> {},
    selected |-> {},
    fks |-> {},
    num_tries |-> 0,
    attempts |-> 0,
    error |-> "",
    failed_in |-> "",
    started |-> 0,
    ins |-> {},
    upd |-> {},
    del |-> {},
    pre |-> [entities |-> {}, rels |-> {}, kinds |-> {}],
    repeat |-> FALSE,
    events |-> <<>>]

\* lines 217-222: the attributes of sync_entities when the module is loaded,
\* and a caller that is in no decorated function
EmptyBuffer == [objs |-> {}, none |-> FALSE]

InitCaller == [
    defer |-> FALSE,
    buffer |-> EmptyBuffer,
    suppress |-> FALSE,
    stack |-> <<>>,
    pc |-> "run",
    exc |-> FALSE,
    exited |-> "",
    flushed |-> [valid |-> FALSE, called |-> FALSE, full |-> FALSE,
                 objs |-> {}, log |-> <<>>],
    ncalls |-> 0]

\* config.py lines 81-86: an EntityRegistry that nothing is registered with
RegModels == {"M1", "M2"}

WatchedModels == {"W1", "W2"}

Unregistered == [qset |-> "", config |-> "", instance |-> 0]

InitRegistry == [
    _entity_registry |-> [m \in RegModels |-> Unregistered],
    _entity_watching |-> [w \in WatchedModels |-> <<>>],
    calls |-> <<>>]

NoWatch == [pc |-> "", class |-> "", watchers |-> <<>>, todo |-> <<>>,
            extracted |-> <<>>, calls |-> <<>>]

NoReturn == [valid |-> FALSE, error |-> "", qset |-> "", rows |-> <<>>,
             submitted |-> <<>>,
             update_fields |-> {}, returning |-> FALSE, sync |-> FALSE, pre |-> {},
             created |-> <<>>, updated |-> <<>>, deleted |-> {}]

InitDb == [rows |-> {}, seq |-> 0, ret |-> NoReturn]

\* the fixture of the entity group tests: a super entity 1 of kind 1 with a
\* sub entity 2 of kind 2, and an entity 3 of kind 2 under no super entity
NoEntities == [valid |-> FALSE, group |-> 0, is_active |-> "", passed |-> "",
               return_models |-> FALSE, ids |-> {}]

InitGroups == [entities |-> {[id |-> 1, kind |-> 1, is_active |-> TRUE],
                             [id |-> 2, kind |-> 2, is_active |-> TRUE],
                             [id |-> 3, kind |-> 2, is_active |-> TRUE]},
               relationships |-> {<<1, 2>>},
               memberships |-> {},
               ret |-> NoEntities]

NoPrev == [valid |-> FALSE, sync_all |-> FALSE, args |-> {}]

\* the source before the first pass: the account is on the team, the team is
\* in the team group
InitSrc ==
    [x \in SrcIds |-> [exists |-> TRUE, active |-> TRUE, data |-> 0,
                       sup |-> IF x[1] = CT_Account THEN {<<CT_Team, 1>>}
                               ELSE IF x[1] = CT_Team THEN {<<CT_TeamGroup, 1>>}
                               ELSE {}]]

Init ==
    /\ src = InitSrc
    /\ entities = {}
    /\ rels = {}
    /\ kinds = {}
    /\ seqs = [E |-> 0, R |-> 0, K |-> 0]
    /\ pass = [p \in Procs |-> IdlePass]
    /\ hist = [npasses |-> 0, nwrites |-> 0, prev |-> NoPrev, outage |-> <<>>]
    /\ caller = InitCaller
    /\ registry = InitRegistry
    /\ watch = NoWatch
    /\ db = InitDb
    /\ groups = InitGroups

\* the object a queryset returns for a row
ReadObj(x) ==
    [exists |-> src[x].exists, active |-> src[x].active, data |-> src[x].data,
     sup |-> src[x].sup,
     team_active |-> \E s \in src[x].sup : s[1] = CT_Team /\ src[s].active]

AllIdle == \A p \in Procs : pass[p].pc = "idle"

\* ------------------------------------------------------------ source writes
OneColumnDiffers(a, b) ==
    Cardinality({f \in {"active", "data"} : a[f] # b[f]}
                \cup ((a.sup \ b.sup) \cup (b.sup \ a.sup))) = 1

\* Model.save() of a registered model with the sync signals turned off: a new
\* row, or one column of a stored row changed
SrcSave(x, row) ==
    /\ hist.nwrites < MaxSrcWrites
    /\ row \in SrcRows(x)
    /\ \A s \in row.sup : src[s].exists
    /\ row # src[x]
    /\ src[x].exists => OneColumnDiffers(row, src[x])
    /\ src' = [src EXCEPT ![x] = row]
    /\ hist' = [hist EXCEPT !.nwrites = @ + 1, !.prev = NoPrev]
    /\ UNCHANGED <<registry, watch, db, groups, caller, entities, rels, kinds, seqs, pass>>

\* Model.delete() with the sync signals turned off; the rows that point at the
\* deleted row stop pointing at it
SrcDelete(x) ==
    /\ hist.nwrites < MaxSrcWrites
    /\ src[x].exists
    /\ src' = [y \in SrcIds |->
                IF y = x THEN NoRow ELSE [src[y] EXCEPT !.sup = @ \ {x}]]
    /\ hist' = [hist EXCEPT !.nwrites = @ + 1, !.prev = NoPrev]
    /\ UNCHANGED <<registry, watch, db, groups, caller, entities, rels, kinds, seqs, pass>>

\* ------------------------------------------------------- EntitySyncer.sync
\* variant: only the sub entity of a reported pair joins the ids to sync
add_super_entities_subs_only(ids, pairs) ==
    ids \cup {e[1] : e \in pairs}

\* _get_super_entities_by_ctype, lines 131-135: both ends of every reported
\* pair join the ids to sync
add_super_entities(ids, pairs) ==
    ids \cup {e[1] : e \in pairs} \cup {e[2] : e \in pairs}

\* sync(), lines 256-287: the objects passed in (or, for a full sync, every
\* object of every registered queryset), the ids to sync, and the super
\* entities the configs report for those objects; specific tells whether
\* the entry point that makes the call was asked to sync given instances
begin_sync(p, X, objs, specific) ==
    /\ pass[p].pc = "idle"
    /\ hist.npasses < MaxPasses
    /\ LET sync_all == X = {}
           model_objs_map == [x \in SrcIds |->
               IF sync_all THEN ReadObj(x) ELSE IF x \in X THEN objs[x] ELSE NoObj]
           keys == {x \in SrcIds : model_objs_map[x].exists}
           super_entities_by_ctype == get_super_entities(model_objs_map)
       IN pass' = [pass EXCEPT ![p] = [IdlePass EXCEPT
               !.pc = "fetch",
               !.started = hist.npasses + 1,
               !.sync_all = sync_all,
               !.specific = specific,
               !.args = X,
               !.model_objs_map = model_objs_map,
               !.model_objs_by_ctype = keys,
               !.super_entities_by_ctype = super_entities_by_ctype,
               !.model_ids_to_sync = add_super_entities(keys, super_entities_by_ctype),
               !.pre = [entities |-> entities, rels |-> rels, kinds |-> kinds],
               !.repeat = hist.prev.valid /\ hist.prev.sync_all = sync_all
                          /\ hist.prev.args = X]]
    /\ hist' = [hist EXCEPT !.npasses = @ + 1]

\* sync_entities(*model_objs) of a caller that has just loaded the instances
StartPass(p, X) ==
    /\ Cardinality(X) <= MaxArgs
    /\ \A x \in X : src[x].exists
    /\ begin_sync(p, X, [x \in X |-> ReadObj(x)], X # {})
    /\ UNCHANGED <<registry, watch, db, groups, caller, src, entities, rels, kinds, seqs>>

\* the ids _fetch_entity_models queries for
unfetched_model_ids(ps) ==
    IF ps.sync_all THEN ps.model_ids_to_sync \ ps.model_objs_by_ctype
    ELSE ps.model_ids_to_sync

\* _get_model_objs_to_sync: fetch through the registered querysets, then look
\* every id to sync up in model_objs_map (a KeyError for an id that is not there)
FetchModels(p) ==
    /\ pass[p].pc = "fetch"
    /\ LET ps == pass[p]
           found == {x \in unfetched_model_ids(ps) : src[x].exists}
           map2 == [x \in SrcIds |-> IF x \in found THEN ReadObj(x) ELSE ps.model_objs_map[x]]
           missing == {x \in ps.model_ids_to_sync : ~map2[x].exists}
       IN pass' = [pass EXCEPT ![p] = [ps EXCEPT
               !.model_objs_map = map2,
               !.model_objs_by_ctype = @ \cup found,
               !.error = IF missing # {} THEN "KeyError" ELSE "",
               !.pc = IF missing # {} THEN "failed" ELSE "kinds"]]
    /\ UNCHANGED <<registry, watch, db, groups, caller, src, entities, rels, kinds, seqs, hist>>

\* -------------------------------------------------------------- transactions
\* what a transaction reads from table T: the committed rows and its own writes
TxView(ps, T) ==
    {r \in T : r.id \notin ps.del /\ \A u \in ps.upd : u.id # r.id}
        \cup ps.upd \cup ps.ins

\* variant: the transaction ends without writing its rows to the table
commit_nothing(ps, T) == T

\* the commit at the end of `with transaction.atomic()`: the table the other
\* transactions see from now on
commit(ps, T) == TxView(ps, T)

\* the end of `with transaction.atomic()`: locks and pending writes are gone
TxClear(ps) ==
    [ps EXCEPT !.tab = "", !.locks = {}, !.forupdate = {}, !.selected = {},
               !.fks = {}, !.num_tries = 0, !.attempts = 0,
               !.ins = {}, !.upd = {}, !.del = {},
               !.todo = <<>>, !.rows = <<>>, !.upserted = {}]

\* ------------------------------------------------ transaction_atomic_with_retry
num_retries == 5

\* the first statement of the phase whose transaction is open
phase_start(tab) ==
    IF tab = "K" THEN "kinds" ELSE IF tab = "E" THEN "ent_begin" ELSE "rel_begin"

\* variant: the rollback of a failed attempt keeps its pending writes
rollback_keeps_writes(ps) ==
    [ps EXCEPT !.locks = {}, !.forupdate = {}, !.selected = {}, !.fks = {},
               !.todo = <<>>, !.rows = <<>>, !.upserted = {}]

\* lines 44-45: an exception leaves `with transaction.atomic()`, and the
\* writes and the locks of the attempt are gone
rollback(ps) ==
    [TxClear(ps) EXCEPT !.num_tries = ps.num_tries, !.attempts = ps.attempts]

\* variant: one retry less
may_retry_one_less(num_tries) == num_tries < num_retries

\* line 41, `while num_tries <= num_retries`
may_retry(num_tries) == num_tries <= num_retries

\* variant: every exception is caught
except_clause_catches_all(err) == TRUE

\* line 47, `except db.utils.OperationalError`
except_clause(err) == err = "OperationalError"

\* lines 41-53: an exception raised by the wrapped method.  An
\* OperationalError counts a try and the method runs again while
\* num_tries <= num_retries, after which the error is raised; any other
\* exception leaves the wrapper at once
raised(ps, err) ==
    IF except_clause(err)
    THEN [rollback(ps) EXCEPT
             !.num_tries = ps.num_tries + 1,
             !.error = IF may_retry(ps.num_tries + 1) THEN "" ELSE err,
             !.failed_in = IF may_retry(ps.num_tries + 1) THEN "" ELSE ps.tab,
             !.pc = IF may_retry(ps.num_tries + 1)
                    THEN phase_start(ps.tab) ELSE "failed"]
    ELSE [rollback(ps) EXCEPT !.error = err, !.failed_in = ps.tab, !.pc = "failed"]

\* ------------------------------------------------------------------ row locks
\* the transaction of q holds a row lock (FOR UPDATE, FOR NO KEY UPDATE, or the
\* lock of an UPDATE or DELETE) on row id of table tab
RowLockedBy(q, tab, id) == pass[q].tab = tab /\ id \in pass[q].locks

LockedByOther(p, tab, id) == \E q \in Procs \ {p} : RowLockedBy(q, tab, id)

\* models.py line 257, entity_kind = ForeignKey(EntityKind): the check of the
\* foreign key of a written Entity row takes FOR KEY SHARE on the kind row;
\* of the locks of the code only select_for_update()'s FOR UPDATE conflicts
\* with it
ForeignKeyBlockedBy(q, kind_id) == pass[q].tab = "K" /\ kind_id \in pass[q].forupdate

\* what a SELECT .. FOR UPDATE of p on a row waits for in q; the entity phase
\* selects FOR NO KEY UPDATE, which the key share of a foreign key passes
SelectBlockedBy(q, tab, id) ==
    \/ RowLockedBy(q, tab, id)
    \/ tab = "K" /\ id \in pass[q].fks

\* SELECT ... ORDER BY id FOR UPDATE, one row: the head of todo is locked, or
\* skipped when a committed delete removed it; the step waits while another
\* transaction holds the row
LockRow(p, pc, tab, T) ==
    /\ pass[p].pc = pc
    /\ pass[p].todo # <<>>
    /\ LET id == Head(pass[p].todo)
       IN IF \E r \in T : r.id = id
          THEN /\ \A q \in Procs \ {p} : ~SelectBlockedBy(q, tab, id)
               /\ pass' = [pass EXCEPT
                      ![p].todo = Tail(@),
                      ![p].locks = @ \cup {id},
                      ![p].forupdate = IF tab = "E" THEN @ ELSE @ \cup {id},
                      ![p].selected = @ \cup {id}]
          ELSE pass' = [pass EXCEPT ![p].todo = Tail(@)]

\* ---------------------------------------------- EntitySyncer.upsert_entity_kinds
entity_kind_tuples_to_sync(ps) ==
    {get_entity_kind(x, ps.model_objs_map[x]) : x \in ps.model_ids_to_sync}

\* variant: the kinds are read through the manager of the active kinds
kinds_active_objects(K) == {k \in K : k.active}

\* EntityKind.all_objects (lines 398, 420, 424): the kinds of either activity
kinds_all_objects(K) == K

unchanged_entity_kinds(ps) ==
    {k \in kinds_all_objects(kinds) :
        <<k.name, k.display>> \in entity_kind_tuples_to_sync(ps)}

changed_entity_kinds(ps) ==
    {t \in entity_kind_tuples_to_sync(ps) :
        \A k \in unchanged_entity_kinds(ps) : <<k.name, k.display>> # t}

\* lines 393-420: the probe for unchanged kinds; with nothing changed the
\* transaction ends here, otherwise every kind row is selected for update
KindsProbe(p) ==
    /\ pass[p].pc = "kinds"
    /\ LET ps == pass[p]
       IN IF changed_entity_kinds(ps) = {}
          THEN pass' = [pass EXCEPT ![p] = [ps EXCEPT
                   !.entity_kinds_map = unchanged_entity_kinds(ps),
                   !.num_tries = 0,
                   !.attempts = 0,
                   !.pc = "ent_begin"]]
          ELSE pass' = [pass EXCEPT ![p] = [ps EXCEPT
                   !.entity_kinds_map = unchanged_entity_kinds(ps),
                   !.attempts = @ + 1,
                   !.tab = "K",
                   !.todo = SortIds({k.id : k \in kinds_all_objects(kinds)}),
                   !.rows = sort_by_unique_fields(changed_entity_kinds(ps)),
                   !.pc = "kinds_tx"]]
    /\ UNCHANGED <<registry, watch, db, groups, caller, src, entities, rels, kinds, seqs, hist>>

KindsLockRow(p) ==
    /\ LockRow(p, "kinds_tx", "K", kinds)
    /\ UNCHANGED <<registry, watch, db, groups, caller, src, entities, rels, kinds, seqs, hist>>

\* the upsert of a kind name waits for q: q has inserted the name and not
\* committed, or holds the committed row of that name
KindKeyHeldBy(q, name) ==
    \/ pass[q].tab = "K" /\ \E r \in pass[q].ins : r.name = name
    \/ \E r \in kinds : r.name = name /\ RowLockedBy(q, "K", r.id)

KindKeyHeldByOther(p, name) == \E q \in Procs \ {p} : KindKeyHeldBy(q, name)

\* lines 423-431: bulk_upsert keyed on name, updating display_name, one row
KindsUpsertRow(p) ==
    /\ pass[p].pc = "kinds_tx"
    /\ pass[p].todo = <<>>
    /\ pass[p].rows # <<>>
    /\ LET ps == pass[p]
           t == Head(ps.rows)
           hit == {r \in kinds_all_objects(TxView(ps, kinds)) : r.name = t[1]}
       IN /\ ~KindKeyHeldByOther(p, t[1])
          /\ IF hit # {}
             THEN LET r == CHOOSE r \in hit : TRUE
                      new == [r EXCEPT !.display = t[2]]
                  IN /\ pass' = [pass EXCEPT ![p] = [ps EXCEPT
                            !.rows = Tail(@),
                            !.locks = @ \cup {r.id},
                            !.upd = {u \in @ : u.id # r.id} \cup {new},
                            !.upserted = @ \cup {r.id}]]
                     /\ seqs' = seqs
             ELSE LET new == [id |-> seqs.K + 1, name |-> t[1], display |-> t[2],
                              active |-> TRUE]
                  IN /\ pass' = [pass EXCEPT ![p] = [ps EXCEPT
                            !.rows = Tail(@),
                            !.ins = @ \cup {new},
                            !.upserted = @ \cup {new.id}]]
                     /\ seqs' = [seqs EXCEPT !.K = @ + 1]
    /\ UNCHANGED <<registry, watch, db, groups, caller, src, entities, rels, kinds, hist>>

\* line 434 and the commit: the upserted and the unchanged kinds are returned
KindsCommit(p) ==
    /\ pass[p].pc = "kinds_tx"
    /\ pass[p].todo = <<>>
    /\ pass[p].rows = <<>>
    /\ LET ps == pass[p]
           view == TxView(ps, kinds)
       IN /\ kinds' = commit(ps, kinds)
          /\ pass' = [pass EXCEPT ![p] = [TxClear(ps) EXCEPT
                 !.entity_kinds_map = @ \cup {k \in view : k.id \in ps.upserted},
                 !.pc = "ent_begin"]]
    /\ UNCHANGED <<registry, watch, db, groups, caller, src, entities, rels, seqs, hist>>

\* ------------------------------------------------- EntitySyncer.upsert_entities
\* variant: every mirrored entity is written as active
entity_to_upsert_always_active(ps, x) ==
    LET obj == ps.model_objs_map[x]
        name == get_entity_kind(x, obj)[1]
    IN [key |-> x,
        kind |-> (CHOOSE k \in ps.entity_kinds_map : k.name = name).id,
        meta |-> get_entity_meta(x, obj),
        display |-> get_display_name(x, obj),
        active |-> TRUE]

\* lines 318-332: the Entity a model object is mirrored as
entity_to_upsert(ps, x) ==
    LET obj == ps.model_objs_map[x]
        name == get_entity_kind(x, obj)[1]
    IN [key |-> x,
        kind |-> (CHOOSE k \in ps.entity_kinds_map : k.name = name).id,
        meta |-> get_entity_meta(x, obj),
        display |-> get_display_name(x, obj),
        active |-> get_is_active(x, obj)]

\* lines 444-467 and 476-484: the rows the phase selects for update and reads
\* its initial activation state from
initial_queryset(ps, T) ==
    {e \in T : ps.sync_all \/ e.key \in ps.model_ids_to_sync}

\* the order in which SELECT ... ORDER BY id ASC FOR NO KEY UPDATE takes rows
select_for_update_order(S) == SortIds(S)

EntBegin(p) ==
    /\ pass[p].pc = "ent_begin"
    /\ LET ps == pass[p]
       IN pass' = [pass EXCEPT ![p] = [ps EXCEPT
               !.attempts = @ + 1,
               !.tab = "E",
               !.todo = IF ps.model_ids_to_sync # {}
                        THEN select_for_update_order(
                                 {e.id : e \in initial_queryset(ps, entities)})
                        ELSE <<>>,
               !.pc = "ent_lock"]]
    /\ UNCHANGED <<registry, watch, db, groups, caller, src, entities, rels, kinds, seqs, hist>>

EntLockRow(p) ==
    /\ LockRow(p, "ent_lock", "E", entities)
    /\ UNCHANGED <<registry, watch, db, groups, caller, src, entities, rels, kinds, seqs, hist>>

\* lines 485-488: the activation state before the upsert
EntInitial(p) ==
    /\ pass[p].pc = "ent_lock"
    /\ pass[p].todo = <<>>
    /\ LET ps == pass[p]
       IN pass' = [pass EXCEPT ![p] = [ps EXCEPT
               !.initial_state =
                   {<<e.id, e.active>> : e \in initial_queryset(ps, TxView(ps, entities))},
               !.rows = sort_by_unique_fields(ps.model_ids_to_sync),
               !.pc = "ent_upsert"]]
    /\ UNCHANGED <<registry, watch, db, groups, caller, src, entities, rels, kinds, seqs, hist>>

\* variant: an upsert never waits for the uncommitted row of another pass
EntityKeyHeldBy_never(q, key) == FALSE

\* the upsert of (entity_type_id, entity_id) waits for q: q has inserted the
\* key and not committed, or holds the committed row of that key
EntityKeyHeldBy(q, key) ==
    \/ pass[q].tab = "E" /\ \E r \in pass[q].ins : r.key = key
    \/ \E r \in entities : r.key = key /\ RowLockedBy(q, "E", r.id)

EntityKeyHeldByOther(p, key) == \E q \in Procs \ {p} : EntityKeyHeldBy(q, key)

\* the foreign key to the kind is checked for an inserted row and for a row
\* whose entity_kind_id changes
needs_fk_check(hit, v) == hit = {} \/ \E r \in hit : r.kind # v.kind

\* variant: the upsert finds no conflicting row and always inserts
entity_conflict_never(ps, T, key) == {}

\* the conflict target of the upsert: the visible row with the unique key
entity_conflict(ps, T, key) == {r \in TxView(ps, T) : r.key = key}

\* lines 490-507, one row of INSERT .. ON CONFLICT (entity_type_id, entity_id)
\* DO UPDATE SET entity_kind_id, entity_meta, display_name, is_active
EntUpsertRow(p) ==
    /\ pass[p].pc = "ent_upsert"
    /\ pass[p].rows # <<>>
    /\ LET ps == pass[p]
           v == entity_to_upsert(ps, Head(ps.rows))
           hit == entity_conflict(ps, entities, v.key)
           fks == IF needs_fk_check(hit, v) THEN {v.kind} ELSE {}
       IN /\ ~EntityKeyHeldByOther(p, v.key)
          /\ \A q \in Procs \ {p} : \A k \in fks : ~ForeignKeyBlockedBy(q, k)
          /\ IF hit # {}
             THEN LET r == CHOOSE r \in hit : TRUE
                      new == [r EXCEPT !.kind = v.kind, !.meta = v.meta,
                                       !.display = v.display, !.active = v.active]
                  IN /\ pass' = [pass EXCEPT ![p] = [ps EXCEPT
                            !.rows = Tail(@),
                            !.fks = @ \cup fks,
                            !.locks = @ \cup {r.id},
                            !.upd = {u \in @ : u.id # r.id} \cup {new},
                            !.upserted = @ \cup {r.id}]]
                     /\ seqs' = seqs
             ELSE LET new == [id |-> seqs.E + 1, key |-> v.key, kind |-> v.kind,
                              meta |-> v.meta, display |-> v.display,
                              active |-> v.active]
                  IN /\ pass' = [pass EXCEPT ![p] = [ps EXCEPT
                            !.rows = Tail(@),
                            !.fks = @ \cup fks,
                            !.ins = @ \cup {new},
                            !.upserted = @ \cup {new.id}]]
                     /\ seqs' = [seqs EXCEPT !.E = @ + 1]
    /\ UNCHANGED <<registry, watch, db, groups, caller, src, entities, rels, kinds, hist>>

\* variant: a full sync that deletes no stale entity
entities_to_delete_none(ps) == {}

\* manager_utils.sync, as db.py lines 173-176 do it: the rows of the queryset
\* that were not upserted are deleted through Entity.objects, the manager of
\* the active entities
entities_to_delete(ps) ==
    {e.id : e \in {r \in initial_queryset(ps, TxView(ps, entities)) :
                      r.id \notin ps.upserted /\ r.active}}

EntSyncBegin(p) ==
    /\ pass[p].pc = "ent_upsert"
    /\ pass[p].rows = <<>>
    /\ pass[p].sync_all
    /\ pass' = [pass EXCEPT ![p].todo = SortIds(entities_to_delete(pass[p])),
                            ![p].pc = "ent_delete"]
    /\ UNCHANGED <<registry, watch, db, groups, caller, src, entities, rels, kinds, seqs, hist>>

\* an activatable row deleted without force=True is deactivated, not removed
EntDeleteRow(p) ==
    /\ pass[p].pc = "ent_delete"
    /\ pass[p].todo # <<>>
    /\ LET ps == pass[p]
           id == Head(ps.todo)
           hit == {r \in TxView(ps, entities) : r.id = id}
       IN IF hit # {}
          THEN /\ ~LockedByOther(p, "E", id)
               /\ pass' = [pass EXCEPT ![p] = [ps EXCEPT
                      !.todo = Tail(@),
                      !.locks = @ \cup {id},
                      !.upd = {u \in @ : u.id # id} \cup
                              {[r EXCEPT !.active = FALSE] : r \in hit}]]
          ELSE pass' = [pass EXCEPT ![p].todo = Tail(@)]
    /\ UNCHANGED <<registry, watch, db, groups, caller, src, entities, rels, kinds, seqs, hist>>

\* lines 509-530: the ids whose activation state differs before and after
\* variant: only the upserted entities are compared
changed_entity_activation_state_of_upserted(initial, current) ==
    LET ids == {s[1] : s \in current}
        was(id) == <<id, TRUE>> \in initial
        is(id) == <<id, TRUE>> \in current
    IN {<<id, is(id)>> : id \in {i \in ids : was(i) # is(i)}}

changed_entity_activation_state(initial, current) ==
    LET ids == {s[1] : s \in initial} \cup {s[1] : s \in current}
        was(id) == <<id, TRUE>> \in initial
        is(id) == <<id, TRUE>> \in current
    IN {<<id, is(id)>> : id \in {i \in ids : was(i) # is(i)}}

\* variant: both signals are sent whatever the two sets hold
send_entity_activation_events_always(changed) ==
    LET activated == {c[1] : c \in {d \in changed : d[2]}}
        deactivated == {c[1] : c \in {d \in changed : ~d[2]}}
    IN <<[sender |-> "Entity", instance_ids |-> SortIds(activated), is_active |-> TRUE],
         [sender |-> "Entity", instance_ids |-> SortIds(deactivated), is_active |-> FALSE]>>

\* send_entity_activation_events, lines 559-588
send_entity_activation_events(changed) ==
    LET activated == {c[1] : c \in {d \in changed : d[2]}}
        deactivated == {c[1] : c \in {d \in changed : ~d[2]}}
    IN (IF activated # {}
        THEN <<[sender |-> "Entity", instance_ids |-> SortIds(activated),
                is_active |-> TRUE]>> ELSE <<>>)
       \o
       (IF deactivated # {}
        THEN <<[sender |-> "Entity", instance_ids |-> SortIds(deactivated),
                is_active |-> FALSE]>> ELSE <<>>)

\* lines 349-359: the relationship rows to sync, for the reported pairs whose
\* two ends are in entities_map
entity_relationships_to_sync(ps, entities_map) ==
    {<<pr[1][2], pr[2][2]>> : pr \in
        {q \in entities_map \X entities_map :
            <<q[1][1], q[2][1]>> \in ps.super_entities_by_ctype}}

\* lines 363-368: the entities of the objects in model_objs_by_ctype
original_entity_ids(ps, entities_map) ==
    {m[2] : m \in {n \in entities_map : n[1] \in ps.model_objs_by_ctype}}

\* the commit of the entity phase, then lines 341-368 of sync()
EntCommit(p) ==
    /\ \/ pass[p].pc = "ent_upsert" /\ pass[p].rows = <<>> /\ ~pass[p].sync_all
       \/ pass[p].pc = "ent_delete" /\ pass[p].todo = <<>>
    /\ LET ps == pass[p]
           view == TxView(ps, entities)
           upserted_entities == {e \in view : e.id \in ps.upserted}
           current == {<<e.id, e.active>> : e \in upserted_entities}
           entities_map == {<<e.key, e.id>> : e \in upserted_entities}
       IN /\ entities' = commit(ps, entities)
          /\ pass' = [pass EXCEPT ![p] = [TxClear(ps) EXCEPT
                 !.events = @ \o send_entity_activation_events(
                     changed_entity_activation_state(ps.initial_state, current)),
                 !.entities_map = entities_map,
                 !.entity_relationships = entity_relationships_to_sync(ps, entities_map),
                 !.original_entity_ids = original_entity_ids(ps, entities_map),
                 !.pc = "rel_begin"]]
    /\ UNCHANGED <<registry, watch, db, groups, caller, src, rels, kinds, seqs, hist>>

\* --------------------------------- EntitySyncer.upsert_entity_relationships
\* lines 370-375: the queryset the relationships are synced against
sync_against(ps, T) ==
    {r \in T : ps.sync_all \/ r.sub \in ps.original_entity_ids}

\* lines 543-548: the rows of the queryset are selected for update, if there
\* is any relationship to write
RelBegin(p) ==
    /\ pass[p].pc = "rel_begin"
    /\ LET ps == pass[p]
       IN pass' = [pass EXCEPT ![p] = [ps EXCEPT
               !.attempts = @ + 1,
               !.tab = "R",
               !.todo = IF ps.entity_relationships # {}
                        THEN select_for_update_order({r.id : r \in sync_against(ps, rels)})
                        ELSE <<>>,
               !.rows = sort_by_unique_fields(ps.entity_relationships),
               !.pc = "rel_lock"]]
    /\ UNCHANGED <<registry, watch, db, groups, caller, src, entities, rels, kinds, seqs, hist>>

RelLockRow(p) ==
    /\ LockRow(p, "rel_lock", "R", rels)
    /\ UNCHANGED <<registry, watch, db, groups, caller, src, entities, rels, kinds, seqs, hist>>

\* the upsert of (sub_entity_id, super_entity_id) waits for q
RelKeyHeldBy(q, sub, sup) ==
    \/ pass[q].tab = "R" /\ \E r \in pass[q].ins : r.sub = sub /\ r.sup = sup
    \/ \E r \in rels : r.sub = sub /\ r.sup = sup /\ RowLockedBy(q, "R", r.id)

RelKeyHeldByOther(p, sub, sup) == \E q \in Procs \ {p} : RelKeyHeldBy(q, sub, sup)

\* variant: the relationship upsert finds no conflicting row and always inserts
relationship_conflict_never(ps, T, v) == {}

relationship_conflict(ps, T, v) ==
    {r \in TxView(ps, T) : r.sub = v[1] /\ r.sup = v[2]}

\* models.py lines 304-309: sub_entity and super_entity are foreign keys to
\* Entity; a relationship row is stored only if both rows exist
endpoints_exist(E, r) ==
    /\ \E e \in E : e.id = r.sub
    /\ \E e \in E : e.id = r.sup

\* lines 551-557, one row of INSERT .. ON CONFLICT (sub_entity_id, super_entity_id);
\* an inserted row whose sub or super entity is gone fails the foreign key
\* check with an IntegrityError, which the retry wrapper does not catch
RelUpsertRow(p) ==
    /\ pass[p].pc = "rel_lock"
    /\ pass[p].todo = <<>>
    /\ pass[p].rows # <<>>
    /\ LET ps == pass[p]
           v == Head(ps.rows)
           hit == relationship_conflict(ps, rels, v)
       IN /\ ~RelKeyHeldByOther(p, v[1], v[2])
          /\ IF hit # {}
             THEN LET r == CHOOSE r \in hit : TRUE
                  IN /\ pass' = [pass EXCEPT ![p] = [ps EXCEPT
                            !.rows = Tail(@),
                            !.locks = @ \cup {r.id},
                            !.upserted = @ \cup {r.id}]]
                     /\ seqs' = seqs
             ELSE LET new == [id |-> seqs.R + 1, sub |-> v[1], sup |-> v[2]]
                  IN /\ pass' = [pass EXCEPT ![p] =
                            IF endpoints_exist(entities, new)
                            THEN [ps EXCEPT
                                     !.rows = Tail(@),
                                     !.ins = @ \cup {new},
                                     !.upserted = @ \cup {new.id}]
                            ELSE raised(ps, "IntegrityError")]
                     /\ seqs' = [seqs EXCEPT !.R = @ + 1]
    /\ UNCHANGED <<registry, watch, db, groups, caller, src, entities, rels, kinds, hist>>

\* variant: the relationship sync deletes nothing
relationships_to_delete_none(ps) == {}

\* db.py lines 173-176: the rows of the queryset that were not upserted
relationships_to_delete(ps) ==
    {r.id : r \in {x \in sync_against(ps, TxView(ps, rels)) : x.id \notin ps.upserted}}

RelSyncBegin(p) ==
    /\ pass[p].pc = "rel_lock"
    /\ pass[p].todo = <<>>
    /\ pass[p].rows = <<>>
    /\ pass' = [pass EXCEPT ![p].todo = SortIds(relationships_to_delete(pass[p])),
                            ![p].pc = "rel_delete"]
    /\ UNCHANGED <<registry, watch, db, groups, caller, src, entities, rels, kinds, seqs, hist>>

RelDeleteRow(p) ==
    /\ pass[p].pc = "rel_delete"
    /\ pass[p].todo # <<>>
    /\ LET ps == pass[p]
           id == Head(ps.todo)
       IN IF \E r \in TxView(ps, rels) : r.id = id
          THEN /\ ~LockedByOther(p, "R", id)
               /\ pass' = [pass EXCEPT ![p] = [ps EXCEPT
                      !.todo = Tail(@),
                      !.locks = @ \cup {id},
                      !.ins = {r \in @ : r.id # id},
                      !.del = @ \cup {id}]]
          ELSE pass' = [pass EXCEPT ![p].todo = Tail(@)]
    /\ UNCHANGED <<registry, watch, db, groups, caller, src, entities, rels, kinds, seqs, hist>>

RelCommit(p) ==
    /\ pass[p].pc = "rel_delete"
    /\ pass[p].todo = <<>>
    /\ rels' = commit(pass[p], rels)
    /\ pass' = [pass EXCEPT ![p] = [TxClear(pass[p]) EXCEPT !.pc = "done"]]
    /\ UNCHANGED <<registry, watch, db, groups, caller, src, entities, kinds, seqs, hist>>

\* sync_entities returns (or raises) to its caller
end_sync(p) ==
    /\ pass[p].pc \in {"done", "failed"}
    /\ hist' = [hist EXCEPT !.prev =
           IF pass[p].pc = "done"
           THEN [valid |-> TRUE, sync_all |-> pass[p].sync_all, args |-> pass[p].args]
           ELSE NoPrev]
    /\ pass' = [pass EXCEPT ![p] = IdlePass]

Return(p) ==
    /\ end_sync(p)
    /\ UNCHANGED <<registry, watch, db, groups, caller, src, entities, rels, kinds, seqs>>

\* ----------------------------------------------------- waiting and deadlock
\* the statement pass p is executing waits for a lock the transaction of q holds
WaitsFor(p, q) ==
    LET ps == pass[p]
    IN \/ /\ ps.pc \in {"kinds_tx", "ent_lock", "rel_lock"}
          /\ ps.todo # <<>>
          /\ SelectBlockedBy(q, ps.tab, Head(ps.todo))
       \/ /\ ps.pc = "kinds_tx" /\ ps.todo = <<>> /\ ps.rows # <<>>
          /\ KindKeyHeldBy(q, Head(ps.rows)[1])
       \/ /\ ps.pc = "ent_upsert" /\ ps.rows # <<>>
          /\ LET v == entity_to_upsert(ps, Head(ps.rows))
                 hit == entity_conflict(ps, entities, v.key)
             IN \/ EntityKeyHeldBy(q, v.key)
                \/ needs_fk_check(hit, v) /\ ForeignKeyBlockedBy(q, v.kind)
       \/ /\ ps.pc = "rel_lock" /\ ps.todo = <<>> /\ ps.rows # <<>>
          /\ RelKeyHeldBy(q, Head(ps.rows)[1], Head(ps.rows)[2])
       \/ /\ ps.pc \in {"ent_delete", "rel_delete"}
          /\ ps.todo # <<>>
          /\ RowLockedBy(q, ps.tab, Head(ps.todo))

Deadlocked(p, q) == p # q /\ WaitsFor(p, q) /\ WaitsFor(q, p)

\* the database ends a deadlock by failing the statement of one of the two
\* transactions with an OperationalError
DeadlockAbort(p) ==
    /\ \E q \in Procs : Deadlocked(p, q)
    /\ pass' = [pass EXCEPT ![p] = raised(pass[p], "OperationalError")]
    /\ UNCHANGED <<registry, watch, db, groups, caller, src, entities, rels, kinds, seqs, hist>>

\* a statement of an open transaction fails: an OperationalError (a lost
\* connection, a lock or statement timeout) or another exception.  The
\* failures of a run fall into the attempts of one phase of one pass
StatementFails(p, err) ==
    /\ pass[p].tab # ""
    /\ hist.outage \in {<<>>, <<pass[p].started, pass[p].tab>>}
    /\ pass' = [pass EXCEPT ![p] = raised(pass[p], err)]
    /\ hist' = [hist EXCEPT !.outage = <<pass[p].started, pass[p].tab>>]
    /\ UNCHANGED <<registry, watch, db, groups, caller, src, entities, rels, kinds, seqs>>

\* the steps of a running pass
Work(p) ==
    \/ FetchModels(p)
    \/ KindsProbe(p) \/ KindsLockRow(p) \/ KindsUpsertRow(p) \/ KindsCommit(p)
    \/ EntBegin(p) \/ EntLockRow(p) \/ EntInitial(p) \/ EntUpsertRow(p)
    \/ EntSyncBegin(p) \/ EntDeleteRow(p) \/ EntCommit(p)
    \/ RelBegin(p) \/ RelLockRow(p) \/ RelUpsertRow(p)
    \/ RelSyncBegin(p) \/ RelDeleteRow(p) \/ RelCommit(p)

Step(p) == Work(p) \/ Return(p)

\* one caller at a time: passes run one after the other, and the source
\* changes only between passes
Next ==
    \/ \E X \in SUBSET SrcIds : AllIdle /\ StartPass(1, X)
    \/ Step(1)
    \/ \E x \in SrcIds : \E row \in SrcRows(x) : AllIdle /\ SrcSave(x, row)
    \/ \E x \in SrcIds : AllIdle /\ SrcDelete(x)

Spec == Init /\ [][Next]_vars

\* callers in separate processes: passes overlap, and the source changes while
\* they run; of two idle processes the first is the one to call
NextConc ==
    \/ \E p \in Procs : \E X \in SUBSET SrcIds :
          (p = 1 \/ pass[1].pc # "idle") /\ StartPass(p, X)
    \/ \E p \in Procs : Step(p)
    \/ \E p \in Procs : DeadlockAbort(p)
    \/ \E x \in SrcIds : \E row \in SrcRows(x) : SrcSave(x, row)
    \/ \E x \in SrcIds : SrcDelete(x)

SpecConc == Init /\ [][NextConc]_vars

\* one caller at a time, and statements that fail
NextFaults ==
    \/ Next
    \/ \E err \in {"OperationalError", "IntegrityError"} : StatementFails(1, err)

SpecFaults == Init /\ [][NextFaults]_vars

\* the mirror an earlier sync_entities(account) has left: the kinds and the
\* entities of the account and of its team, written in the order of their
\* unique fields, and the relationship between the two; the team group is
\* not mirrored yet
AfterAccountSync ==
    LET synced == <<<<CT_Team, 1>>, <<CT_Account, 1>>>>
        names == SortIds({get_entity_kind(x, ReadObj(x))[1] : x \in Range(synced)})
        kind_rows == {[id |-> i, name |-> names[i], active |-> TRUE,
                       display |-> (CHOOSE t \in {get_entity_kind(x, ReadObj(x)) :
                                                     x \in Range(synced)} :
                                       t[1] = names[i])[2]] : i \in 1..Len(names)}
        ps == [IdlePass EXCEPT
                  !.model_objs_map = [x \in SrcIds |-> ReadObj(x)],
                  !.entity_kinds_map = kind_rows]
    IN [kinds |-> kind_rows,
        entities |-> {[id |-> i] @@ entity_to_upsert(ps, synced[i]) : i \in 1..Len(synced)},
        rels |-> {[id |-> 1, sub |-> 2, sup |-> 1]},
        seqs |-> [E |-> 2, R |-> 1, K |-> Len(names)]]

InitOrder ==
    /\ src = InitSrc
    /\ entities = AfterAccountSync.entities
    /\ rels = AfterAccountSync.rels
    /\ kinds = AfterAccountSync.kinds
    /\ seqs = AfterAccountSync.seqs
    /\ pass = [p \in Procs |-> IdlePass]
    /\ hist = [npasses |-> 0, nwrites |-> 0, prev |-> NoPrev, outage |-> <<>>]
    /\ caller = InitCaller
    /\ registry = InitRegistry
    /\ watch = NoWatch
    /\ db = InitDb
    /\ groups = InitGroups

\* SyncEntitiesTask.run, tasks.py lines 10-15: with model_obj_class and
\* model_obj_ids in kwargs the rows of that model with those ids are loaded
\* and passed to sync_entities, otherwise sync_entities() is called
TaskRun(with_kwargs, model_obj_class, model_obj_ids) ==
    /\ LET X == {x \in SrcIds : /\ x[1] = model_obj_class
                                /\ x[2] \in model_obj_ids
                                /\ src[x].exists}
       IN IF with_kwargs
          THEN begin_sync(1, X, [x \in X |-> ReadObj(x)], TRUE)
          ELSE begin_sync(1, {}, <<>>, FALSE)
    /\ UNCHANGED <<registry, watch, db, groups, caller, src, entities, rels, kinds, seqs>>

\* one caller at a time, and passes that the task starts; a task without
\* kwargs is given no model class
NextTask ==
    \/ Next
    \/ \E model_obj_class \in {x[1] : x \in SrcIds} :
       \E model_obj_ids \in SUBSET {x[2] : x \in SrcIds} :
          AllIdle /\ TaskRun(TRUE, model_obj_class, model_obj_ids)
    \/ AllIdle /\ TaskRun(FALSE, 0, {})

SpecTask == Init /\ [][NextTask]_vars

\* models.py lines 168-175, Entity.all_objects.delete_for_obj: the Entity rows
\* of the object, active or not, are deleted with force=True
delete_for_obj(E, x) == {e \in E : e.key # x}

\* models.py lines 304-309, on_delete=CASCADE: the relationship rows of the
\* deleted entities are deleted with them
cascade(R, gone) == {r \in R : r.sub \notin gone /\ r.sup \notin gone}

\* Model.delete() of a registered model with the post_delete signal
\* connected, in a process of its own: the row is deleted and
\* delete_entity_signal_handler (signal_handlers.py lines 9-15) deletes its
\* entity.  The delete waits for the row locks other transactions hold on
\* the rows it removes and for the inserts that reference them
delete_entity_signal_handler(x) ==
    /\ hist.nwrites < MaxSrcWrites
    /\ src[x].exists
    /\ LET gone == {e.id : e \in entities \ delete_for_obj(entities, x)}
           rows == rels \ cascade(rels, gone)
       IN /\ \A p \in Procs :
                /\ \A id \in gone : ~RowLockedBy(p, "E", id)
                /\ \A r \in rows : ~RowLockedBy(p, "R", r.id)
                /\ pass[p].tab = "R" =>
                       \A r \in pass[p].ins : r.sub \notin gone /\ r.sup \notin gone
          /\ entities' = delete_for_obj(entities, x)
          /\ rels' = cascade(rels, gone)
    /\ src' = [y \in SrcIds |->
                IF y = x THEN NoRow ELSE [src[y] EXCEPT !.sup = @ \ {x}]]
    /\ hist' = [hist EXCEPT !.nwrites = @ + 1, !.prev = NoPrev]
    /\ UNCHANGED <<registry, watch, db, groups, caller, kinds, seqs, pass>>

\* one caller of sync_entities, and deletes of source rows by other processes
\* while its pass runs
NextSignals ==
    \/ Next
    \/ \E x \in SrcIds : delete_entity_signal_handler(x)

SpecSignals == Init /\ [][NextSignals]_vars

\* one caller at a time, over a mirror that earlier passes have written
SpecOrder == InitOrder /\ [][Next]_vars

\* ------------------------------------- defer_entity_syncing, suppress_entity_syncing
\* the caller of process 1 runs decorated functions, one inside the other up
\* to MaxDepth, and calls sync_entities from them and from outside them
Top(stack) == stack[Len(stack)]

Pop(stack) == SubSeq(stack, 1, Len(stack) - 1)

Frame(kind) == [kind |-> kind, log |-> <<>>]

\* lines 203-208: sync_entities.buffer[None] = None, or one entry per
\* (class, pk) that replaces the entry the key had
buffer_add(buffer, X, objs) ==
    IF X = {} THEN [buffer EXCEPT !.none = TRUE]
    ELSE [buffer EXCEPT !.objs = {e \in @ : e[1] \notin X} \cup {<<x, objs[x]>> : x \in X}]

\* len(sync_entities.buffer)
buffer_len(buffer) == Cardinality(buffer.objs) + (IF buffer.none THEN 1 ELSE 0)

\* line 88
flush_needed(buffer) == buffer_len(buffer) > 0

\* line 68 and line 103: the decorated function is entered
DeferEnter ==
    /\ caller.pc = "run" /\ ~caller.exc
    /\ Len(caller.stack) < MaxDepth
    /\ caller' = [caller EXCEPT !.defer = TRUE, !.exited = "",
                     !.stack = Append(@, Frame("defer"))]
    /\ UNCHANGED <<registry, watch, db, groups, src, entities, rels, kinds, seqs, pass, hist>>

SuppressEnter ==
    /\ caller.pc = "run" /\ ~caller.exc
    /\ Len(caller.stack) < MaxDepth
    /\ caller' = [caller EXCEPT !.suppress = TRUE, !.exited = "",
                     !.stack = Append(@, Frame("suppress"))]
    /\ UNCHANGED <<registry, watch, db, groups, src, entities, rels, kinds, seqs, pass, hist>>

\* the decorated function that is running raises
FunctionRaises ==
    /\ caller.pc = "run" /\ ~caller.exc
    /\ caller.stack # <<>>
    /\ caller' = [caller EXCEPT !.exc = TRUE, !.exited = ""]
    /\ UNCHANGED <<registry, watch, db, groups, src, entities, rels, kinds, seqs, pass, hist>>

\* variant: the test of sync_entities.defer comes first
dispatch_defer_first(suppress, defer) ==
    IF defer THEN "buffer" ELSE IF suppress THEN "drop" ELSE "sync"

\* lines 196-214: sync_entities.suppress is tested first and returns False,
\* then sync_entities.defer, which buffers; otherwise the pass runs
dispatch(suppress, defer) ==
    IF suppress THEN "drop" ELSE IF defer THEN "buffer" ELSE "sync"

\* sync_entities(*model_objs), lines 196-214, called with instances the caller
\* has just loaded
sync_entities(X) ==
    /\ caller.pc = "run" /\ ~caller.exc
    /\ caller.ncalls < MaxCalls
    /\ Cardinality(X) <= MaxArgs
    /\ \A x \in X : src[x].exists
    /\ LET objs == [x \in X |-> ReadObj(x)]
           request == [X |-> X, objs |-> {<<x, objs[x]>> : x \in X}]
           todo == dispatch(caller.suppress, caller.defer)
       IN IF todo = "drop"
          THEN /\ caller' = [caller EXCEPT !.ncalls = @ + 1, !.exited = ""]
               /\ UNCHANGED <<registry, watch, db, groups, pass, hist>>
          ELSE IF todo = "buffer"
          THEN /\ caller' = [caller EXCEPT !.ncalls = @ + 1, !.exited = "",
                      !.buffer = buffer_add(@, X, objs),
                      !.stack = [i \in 1..Len(@) |->
                                    [@[i] EXCEPT !.log = Append(@, request)]]]
               /\ UNCHANGED <<registry, watch, db, groups, pass, hist>>
          ELSE /\ begin_sync(1, X, objs, X # {})
               /\ caller' = [caller EXCEPT !.ncalls = @ + 1, !.exited = "",
                      !.pc = "call"]
    /\ UNCHANGED <<registry, watch, db, groups, src, entities, rels, kinds, seqs>>

\* EntitySyncer(*model_objs).sync() of line 214 returns or raises
CallReturns ==
    /\ caller.pc = "call"
    /\ end_sync(1)
    /\ caller' = [caller EXCEPT !.pc = "run",
           !.exc = pass[1].pc = "failed" /\ caller.stack # <<>>]
    /\ UNCHANGED <<registry, watch, db, groups, src, entities, rels, kinds, seqs>>

\* lines 110-111: the finally of suppress_entity_syncing
SuppressExit ==
    /\ caller.pc = "run"
    /\ caller.stack # <<>> /\ Top(caller.stack).kind = "suppress"
    /\ caller' = [caller EXCEPT !.suppress = FALSE, !.exited = "suppress",
           !.stack = Pop(@),
           !.exc = @ /\ Len(caller.stack) > 1]
    /\ UNCHANGED <<registry, watch, db, groups, src, entities, rels, kinds, seqs, pass, hist>>

\* lines 76-92: the finally of defer_entity_syncing, up to the flush call
DeferExit ==
    /\ caller.pc = "run"
    /\ caller.stack # <<>> /\ Top(caller.stack).kind = "defer"
    /\ LET buffer == caller.buffer
           model_objs == IF buffer.none THEN {} ELSE buffer.objs
           X == {e[1] : e \in model_objs}
           objs == [x \in X |-> (CHOOSE e \in model_objs : e[1] = x)[2]]
           flushed == [valid |-> TRUE, called |-> flush_needed(buffer),
                       full |-> model_objs = {}, objs |-> model_objs,
                       log |-> Top(caller.stack).log]
       IN IF flush_needed(buffer) /\ dispatch(caller.suppress, FALSE) = "sync"
          THEN /\ begin_sync(1, X, objs, ~buffer.none)
               /\ caller' = [caller EXCEPT !.defer = FALSE, !.exited = "",
                      !.flushed = flushed, !.pc = "flush"]
          ELSE /\ caller' = [caller EXCEPT !.defer = FALSE, !.exited = "defer",
                      !.flushed = flushed,
                      !.buffer = EmptyBuffer,
                      !.stack = Pop(@),
                      !.exc = @ /\ Len(caller.stack) > 1]
               /\ UNCHANGED <<registry, watch, db, groups, pass, hist>>
    /\ UNCHANGED <<registry, watch, db, groups, src, entities, rels, kinds, seqs>>

\* the flush call of line 89 returns, and line 92 clears the buffer; or the
\* call raises, and the finally is left at line 89
FlushReturns ==
    /\ caller.pc = "flush"
    /\ end_sync(1)
    /\ caller' = [caller EXCEPT !.pc = "run", !.exited = "defer",
           !.stack = Pop(@),
           !.buffer = IF pass[1].pc = "done" THEN EmptyBuffer ELSE @,
           !.exc = (@ \/ pass[1].pc = "failed") /\ Len(caller.stack) > 1]
    /\ UNCHANGED <<registry, watch, db, groups, src, entities, rels, kinds, seqs>>

NextDefer ==
    \/ DeferEnter
    \/ SuppressEnter
    \/ FunctionRaises
    \/ \E X \in SUBSET SrcIds : sync_entities(X)
    \/ Work(1)
    \/ CallReturns
    \/ SuppressExit
    \/ DeferExit
    \/ FlushReturns
    \/ \E x \in SrcIds : \E row \in SrcRows(x) : AllIdle /\ SrcSave(x, row)
    \/ \E x \in SrcIds : AllIdle /\ SrcDelete(x)

SpecDefer == Init /\ [][NextDefer]_vars

\* ------------------------------------------- kinds of configs that override
\* get_entity_kind: the instances of a pass resolve to any (name, display
\* name) tuples
KindNames == {1, 2}

KindDisplays == {1, 2}

KindTuples == KindNames \X KindDisplays

RECURSIVE SeqsUpTo(_, _)
SeqsUpTo(S, n) ==
    IF n = 0 THEN {<<>>}
    ELSE SeqsUpTo(S, n - 1) \cup
         {Append(q, e) : q \in {r \in SeqsUpTo(S, n - 1) : Len(r) = n - 1}, e \in S}

\* the position of tuple t in the sorted rows
RowIndex(rows, t) == CHOOSE i \in 1..Len(rows) : rows[i] = t

\* lines 295-299: the set of the tuples the instances resolve to
kind_tuples(ts) == Range(ts)

\* lines 294-316 and upsert_entity_kinds for one caller: the tuples the
\* instances resolve to, the probe for unchanged kinds, and one bulk upsert
\* keyed on name of the changed ones, which raises when two of its rows carry
\* the same name
ResolveKinds(ts) ==
    /\ seqs.K < MaxKindSeq
    /\ LET T == kind_tuples(ts)
           unchanged == {k \in kinds : <<k.name, k.display>> \in T}
           changed == {t \in T : \A k \in unchanged : <<k.name, k.display>> # t}
           stored(t) == \E k \in kinds : k.name = t[1]
           created == sort_by_unique_fields({t \in changed : ~stored(t)})
           twice == \E t, u \in changed : t # u /\ t[1] = u[1]
           upserted ==
               {[k EXCEPT !.display = (CHOOSE t \in changed : t[1] = k.name)[2]] :
                   k \in {r \in kinds : \E t \in changed : t[1] = r.name}}
               \cup {[id |-> seqs.K + RowIndex(created, t), name |-> t[1],
                      display |-> t[2], active |-> TRUE] : t \in Range(created)}
           result(pc, err, map) == [IdlePass EXCEPT
               !.pc = pc, !.error = err, !.failed_in = IF err = "" THEN "" ELSE "K",
               !.rows = ts, !.entity_kinds_map = map,
               !.pre = [entities |-> entities, rels |-> rels, kinds |-> kinds]]
       IN /\ seqs' = [seqs EXCEPT !.K = @ + Len(created)]
          /\ IF twice
             THEN /\ kinds' = kinds
                  /\ pass' = [pass EXCEPT ![1] = result("failed", "DatabaseError", {})]
             ELSE /\ kinds' = {k \in kinds : \A u \in upserted : u.id # k.id} \cup upserted
                  /\ pass' = [pass EXCEPT ![1] = result("done", "", upserted \cup unchanged)]
    /\ UNCHANGED <<registry, watch, db, groups, src, entities, rels, hist, caller>>

\* the application turns the is_active flag of a stored kind off or on
KindSetActive(id, flag) ==
    /\ \E k \in kinds : k.id = id /\ k.active # flag
    /\ kinds' = {IF k.id = id THEN [k EXCEPT !.active = flag] ELSE k : k \in kinds}
    /\ UNCHANGED <<registry, watch, db, groups, src, entities, rels, seqs, pass, hist, caller>>

NextKinds ==
    \/ \E ts \in SeqsUpTo(KindTuples, MaxInstances) : ResolveKinds(ts)
    \/ \E k \in kinds : \E flag \in BOOLEAN : KindSetActive(k.id, flag)

SpecKinds == Init /\ [][NextKinds]_vars

\* one caller at a time, and an application that deactivates and activates
\* the stored kinds between the passes
NextKindOff ==
    \/ Next
    \/ \E k \in kinds : \E flag \in BOOLEAN : AllIdle /\ KindSetActive(k.id, flag)

SpecKindOff == Init /\ [][NextKindOff]_vars

\* ------------------------------------------------------------ EntityRegistry
\* the config classes that are registered: the class variable watching lists
\* (watched model, getter) tuples
ConfigClasses == {
    [name |-> "EntityConfig", watching |-> <<>>],
    [name |-> "C1", watching |-> <<<<"W1", "g1">>>>],
    [name |-> "C2", watching |-> <<<<"W1", "g2">>, <<"W2", "g3">>>>]}

\* what register_entity is called with: a model class, or a manager or
\* queryset of a model, or something else
RegisterArgs ==
    {[kind |-> "model", model |-> m, qset |-> "None"] : m \in RegModels}
    \cup {[kind |-> "queryset", model |-> m, qset |-> "all"] : m \in RegModels}
    \cup {[kind |-> "other", model |-> "", qset |-> ""]}

\* variant: a model is registered again as if it were new
is_registered_never(reg, model) == FALSE

\* line 115
is_registered(reg, model) == reg._entity_registry[model] # Unregistered

\* the watchers of a config class, appended to the lists of the models they
\* watch (lines 119-120)
RECURSIVE add_watchers(_, _, _)
add_watchers(watching, model, ws) ==
    IF ws = <<>> THEN watching
    ELSE add_watchers(
             [watching EXCEPT ![Head(ws)[1]] = Append(@, <<model, Head(ws)[2]>>)],
             model, Tail(ws))

\* register_entity, lines 96-120; the ValueError of lines 109 and 113 leaves
\* the registry as it is
register_entity(arg, entity_config) ==
    /\ Len(registry.calls) < MaxRegs
    /\ watch.pc # "loop"
    /\ LET n == Len(registry.calls) + 1
           call == [arg |-> arg, config |-> entity_config.name, instance |-> n]
       IN IF arg.kind = "other" \/ is_registered(registry, arg.model)
          THEN registry' = [registry EXCEPT !.calls = Append(@, call)]
          ELSE registry' = [registry EXCEPT
                   !.calls = Append(@, call),
                   !._entity_registry[arg.model] =
                       [qset |-> arg.qset, config |-> entity_config.name, instance |-> n],
                   !._entity_watching =
                       add_watchers(@, arg.model, entity_config.watching)]
    /\ UNCHANGED <<src, entities, rels, kinds, seqs, pass, hist, caller, watch, db, groups>>

\* ------------------------------------------------------ sync_entities_watching
\* variant: sync_entities is called with whatever the getter returned
has_model_objs_always(model_objs) == TRUE

\* line 231
has_model_objs(model_objs) == model_objs # <<>>

\* line 229: the loop over entity_watching[instance.__class__] starts
WatchingBegin(class) ==
    /\ watch.pc # "loop"
    /\ watch' = [NoWatch EXCEPT !.pc = "loop", !.class = class,
                    !.watchers = registry._entity_watching[class],
                    !.todo = registry._entity_watching[class]]
    /\ UNCHANGED <<src, entities, rels, kinds, seqs, pass, hist, caller,
                   registry, db, groups>>

\* lines 229-232, one watcher: the getter returns model_objs, and for a
\* non-empty list sync_entities is called and returns or raises
WatchingNext(model_objs, outcome) ==
    /\ watch.pc = "loop"
    /\ watch.todo # <<>>
    /\ watch' = [watch EXCEPT
           !.todo = Tail(@),
           !.extracted = Append(@, <<Head(watch.todo), model_objs>>),
           !.calls = IF has_model_objs(model_objs) THEN Append(@, model_objs) ELSE @,
           !.pc = IF has_model_objs(model_objs) /\ outcome = "raised"
                  THEN "raised" ELSE "loop"]
    /\ UNCHANGED <<src, entities, rels, kinds, seqs, pass, hist, caller,
                   registry, db, groups>>

WatchingReturn ==
    /\ watch.pc = "loop"
    /\ watch.todo = <<>>
    /\ watch' = [watch EXCEPT !.pc = "returned"]
    /\ UNCHANGED <<src, entities, rels, kinds, seqs, pass, hist, caller,
                   registry, db, groups>>

NextRegistry ==
    \/ \E arg \in RegisterArgs : \E c \in ConfigClasses : register_entity(arg, c)
    \/ \E class \in WatchedModels : WatchingBegin(class)
    \/ \E model_objs \in SeqsUpTo(SrcIds, MaxExtracted) :
          \E outcome \in {"returned", "raised"} : WatchingNext(model_objs, outcome)
    \/ WatchingReturn

SpecRegistry == Init /\ [][NextRegistry]_vars

\* ------------------------------------------------------------ entity.db.upsert
\* a table of a model with a unique column key, a column val, and the
\* is_active column of the activatable models of models.py: the default
\* manager objects selects the active rows, all_objects selects every row
DbKeys == {1, 2}

DbVals == {0, 1}

\* the rows submitted: model objects without a pk, active by default
DbSubmitted == [key : DbKeys, val : DbVals, active : {TRUE}]

\* the update_fields arguments: None, ['val'] and []
UpdateFields == {[none |-> TRUE, fields |-> {}], [none |-> FALSE, fields |-> {"val"}],
                 [none |-> FALSE, fields |-> {}]}

queryset(qset, rows) ==
    IF qset = "objects" THEN {r \in rows : r.active} ELSE rows

\* _get_update_fields, lines 14-26: None stands for every column but the pk
\* and the unique fields
get_update_fields(to_update) ==
    IF to_update.none THEN {"val", "active"} ELSE to_update.fields

\* sorted() puts a value behind the values of the list that do not come
\* after it
RECURSIVE insort(_, _)
insort(r, sorted) ==
    IF sorted = <<>> THEN <<r>>
    ELSE IF Head(sorted).key <= r.key THEN <<Head(sorted)>> \o insort(r, Tail(sorted))
    ELSE <<r>> \o sorted

\* _sort_by_unique_fields: sorted(values, key=sort_key), a stable sort that
\* keeps every value of the list
RECURSIVE sort_rows(_)
sort_rows(values) ==
    IF values = <<>> THEN <<>>
    ELSE insort(values[Len(values)], sort_rows(SubSeq(values, 1, Len(values) - 1)))

\* variant: every row returned counts as inserted
xmax_is_zero_always(hit) == TRUE

\* (xmax = 0) AS inserted_, line 128: true of a row the statement inserted
xmax_is_zero(hit) == hit = {}

\* INSERT .. ON CONFLICT (key) DO UPDATE SET <update fields> RETURNING *,
\* (xmax = 0) AS inserted_, lines 136-157, row by row: the table, the
\* sequence and the rows returned
RECURSIVE on_conflict_do_update(_, _, _, _, _)
on_conflict_do_update(todo, table, seq, fields, out) ==
    IF todo = <<>> THEN [table |-> table, seq |-> seq, out |-> out]
    ELSE LET t == Head(todo)
             hit == {r \in table : r.key = t.key}
         IN IF hit # {}
            THEN LET r == CHOOSE r \in hit : TRUE
                     new == [r EXCEPT
                                !.val = IF "val" \in fields THEN t.val ELSE @,
                                !.active = IF "active" \in fields THEN t.active ELSE @]
                 IN on_conflict_do_update(Tail(todo), (table \ {r}) \cup {new}, seq,
                        fields, Append(out, [row |-> new, inserted_ |-> xmax_is_zero(hit)]))
            ELSE LET new == [id |-> seq + 1, key |-> t.key, val |-> t.val,
                             active |-> t.active]
                 IN on_conflict_do_update(Tail(todo), table \cup {new}, seq + 1,
                        fields, Append(out, [row |-> new, inserted_ |-> xmax_is_zero(hit)]))

\* line 176: self.model.objects.filter(pk__in=deleted).delete(); an
\* activatable row deleted without force=True is deactivated
delete_through_objects(qset, table, ids) ==
    {IF r.id \in ids /\ r \in queryset("objects", table)
     THEN [r EXCEPT !.active = FALSE] ELSE r : r \in table}

\* lines 74-76 and 127: RETURNING is part of the statement when returning
\* is not empty, and sync adds id to it
do_return(returning, sync) == returning \/ sync

\* upsert, lines 186-203, and UpsertQuery.fetch_all; a statement with two
\* rows of one key raises and leaves the table as it was
Upsert(qset, rows, update_fields, returning, sync) ==
    /\ ~db.ret.valid
    /\ LET ret == [NoReturn EXCEPT !.valid = TRUE, !.qset = qset, !.rows = rows,
                      !.submitted = sort_rows(rows),
                      !.update_fields = get_update_fields(update_fields),
                      !.returning = returning, !.sync = sync, !.pre = db.rows]
           sorted == sort_rows(rows)
           twice == \E i, j \in 1..Len(sorted) : i # j /\ sorted[i].key = sorted[j].key
           done == on_conflict_do_update(sorted, db.rows, db.seq,
                       get_update_fields(update_fields), <<>>)
           upserted == IF do_return(returning, sync) THEN done.out ELSE <<>>
           orig_ids == {r.id : r \in queryset(qset, done.table)}
           deleted == IF sync
                      THEN orig_ids \ {upserted[i].row.id : i \in 1..Len(upserted)}
                      ELSE {}
       IN IF twice
          THEN db' = [db EXCEPT !.ret = [ret EXCEPT !.error = "DatabaseError"]]
          ELSE db' = [rows |-> delete_through_objects(qset, done.table, deleted),
                      seq |-> done.seq,
                      ret |-> [ret EXCEPT
                          !.created = SelectSeq(upserted, LAMBDA u : u.inserted_),
                          !.updated = SelectSeq(upserted, LAMBDA u : ~u.inserted_),
                          !.deleted = deleted]]
    /\ UNCHANGED <<src, entities, rels, kinds, seqs, pass, hist, caller,
                   registry, watch, groups>>

\* the caller is done with the lists returned, or with the error raised
DbCallDone ==
    /\ db.ret.valid
    /\ db' = [db EXCEPT !.ret = NoReturn]
    /\ UNCHANGED <<src, entities, rels, kinds, seqs, pass, hist, caller,
                   registry, watch, groups>>

\* the application turns the is_active flag of a row off or on
DbSetActive(id, flag) ==
    /\ ~db.ret.valid
    /\ \E r \in db.rows : r.id = id /\ r.active # flag
    /\ db' = [db EXCEPT
           !.rows = {IF r.id = id THEN [r EXCEPT !.active = flag] ELSE r : r \in @}]
    /\ UNCHANGED <<src, entities, rels, kinds, seqs, pass, hist, caller,
                   registry, watch, groups>>

NextUpsert ==
    \/ DbCallDone
    \/ ~db.ret.valid /\
       \E qset \in {"objects", "all_objects"} :
       \E rows \in SeqsUpTo(DbSubmitted, MaxRows) :
       \E update_fields \in UpdateFields :
       \E returning \in BOOLEAN : \E sync \in BOOLEAN :
          Upsert(qset, rows, update_fields, returning, sync)
    \/ \E r \in db.rows : \E flag \in BOOLEAN : DbSetActive(r.id, flag)

SpecUpsert == Init /\ [][NextUpsert]_vars

\* ------------------------------------------------------------ entity groups
\* EntityGroupMembership rows are [group, entity, kind]; 0 stands for NULL
GroupIds == {1, 2}

GEntityIds == {1, 2, 3}

GKindIds == {1, 2}

MembershipRows ==
    {m \in [group : GroupIds, entity : GEntityIds \cup {0}, kind : GKindIds \cup {0}] :
        m.entity # 0 \/ m.kind # 0}

\* Entity.objects, the rows ActiveEntityManager selects
Entity_objects == {e \in groups.entities : e.is_active}

GEntity(id) == CHOOSE e \in groups.entities : e.id = id

\* EntityGroupManager.get_membership_cache: group_ids is a set of group
\* ids, the empty set when none are passed; is_active is "True", "False" or
\* "None"
get_membership_cache(group_ids, is_active) ==
    LET membership_queryset ==
            IF is_active = "None" THEN groups.memberships
            ELSE {m \in groups.memberships :
                     m.entity = 0 \/ GEntity(m.entity).is_active = (is_active = "True")}
    IN IF group_ids # {}
       THEN {m \in membership_queryset : m.group \in group_ids}
       ELSE membership_queryset

\* get_entities_by_kind, lines 596-601: the relationships of the supers
\* whose sub entity has one of the kinds
relationships_of_subs(super_ids, kinds_with_supers) ==
    {r \in groups.relationships :
        /\ r[1] \in super_ids
        /\ GEntity(r[2]).kind \in kinds_with_supers}

\* get_entities_by_kind: the index as triples <<kind, super entity, id>>,
\* with the super entity 0 for the key 'all'
get_entities_by_kind(membership_cache) ==
    LET kinds_with_all == {m.kind : m \in {c \in membership_cache : c.kind # 0 /\ c.entity = 0}}
        kinds_with_supers == {m.kind : m \in {c \in membership_cache : c.kind # 0 /\ c.entity # 0}}
        super_ids == {m.entity : m \in {c \in membership_cache : c.kind # 0 /\ c.entity # 0}}
    IN {<<e.kind, 0, e.id>> : e \in {a \in Entity_objects : a.kind \in kinds_with_all}}
       \cup {<<GEntity(r[2]).kind, r[1], r[2]>> :
                r \in relationships_of_subs(super_ids, kinds_with_supers)}

\* EntityGroup.get_all_entities; passed names the membership cache the
\* caller passes: "None", the cache of every group, or the cache built for
\* the other groups only
get_all_entities(group, passed, return_models, is_active) ==
    LET membership_cache ==
            IF passed = "None" THEN get_membership_cache({group}, is_active)
            ELSE IF passed = "all" THEN get_membership_cache({}, is_active)
            ELSE get_membership_cache(GroupIds \ {group}, is_active)
        entities_by_kind == get_entities_by_kind(membership_cache)
        mine == {m \in membership_cache : m.group = group}
        entity_ids ==
            UNION {IF m.entity # 0
                   THEN IF m.kind # 0
                        THEN {t[3] : t \in {x \in entities_by_kind :
                                               x[1] = m.kind /\ x[2] = m.entity}}
                        ELSE {m.entity}
                   ELSE {t[3] : t \in {x \in entities_by_kind :
                                          x[1] = m.kind /\ x[2] = 0}}
                   : m \in mine}
    IN IF return_models
       THEN {e.id : e \in {a \in Entity_objects : a.id \in entity_ids}}
       ELSE entity_ids

GetAllEntities(group, passed, return_models, is_active) ==
    /\ ~groups.ret.valid
    /\ groups' = [groups EXCEPT !.ret =
           [valid |-> TRUE, group |-> group, is_active |-> is_active,
            passed |-> passed, return_models |-> return_models,
            ids |-> get_all_entities(group, passed, return_models, is_active)]]
    /\ UNCHANGED <<src, entities, rels, kinds, seqs, pass, hist, caller,
                   registry, watch, db>>

\* the caller is done with the ids returned
GroupCallDone ==
    /\ groups.ret.valid
    /\ groups' = [groups EXCEPT !.ret = NoEntities]
    /\ UNCHANGED <<src, entities, rels, kinds, seqs, pass, hist, caller,
                   registry, watch, db>>

\* EntityGroup.add_entity
add_entity(group, entity, sub_entity_kind) ==
    /\ ~groups.ret.valid
    /\ Cardinality(groups.memberships) < MaxMemberships
    /\ [group |-> group, entity |-> entity, kind |-> sub_entity_kind] \notin groups.memberships
    /\ groups' = [groups EXCEPT !.memberships =
           @ \cup {[group |-> group, entity |-> entity, kind |-> sub_entity_kind]}]
    /\ UNCHANGED <<src, entities, rels, kinds, seqs, pass, hist, caller,
                   registry, watch, db>>

\* EntityGroup.remove_entity
remove_entity(group, entity, sub_entity_kind) ==
    /\ ~groups.ret.valid
    /\ [group |-> group, entity |-> entity, kind |-> sub_entity_kind] \in groups.memberships
    /\ groups' = [groups EXCEPT !.memberships =
           @ \ {[group |-> group, entity |-> entity, kind |-> sub_entity_kind]}]
    /\ UNCHANGED <<src, entities, rels, kinds, seqs, pass, hist, caller,
                   registry, watch, db>>

\* a sync, or the application, turns the is_active flag of an entity
GEntitySetActive(id, flag) ==
    /\ ~groups.ret.valid
    /\ GEntity(id).is_active # flag
    /\ groups' = [groups EXCEPT !.entities =
           {IF e.id = id THEN [e EXCEPT !.is_active = flag] ELSE e : e \in @}]
    /\ UNCHANGED <<src, entities, rels, kinds, seqs, pass, hist, caller,
                   registry, watch, db>>

NextGroups ==
    \/ \E group \in GroupIds : \E passed \in {"None", "all", "others"} :
       \E return_models \in BOOLEAN : \E is_active \in {"True", "False", "None"} :
          GetAllEntities(group, passed, return_models, is_active)
    \/ GroupCallDone
    \/ \E m \in MembershipRows : add_entity(m.group, m.entity, m.kind)
    \/ \E m \in MembershipRows : remove_entity(m.group, m.entity, m.kind)
    \/ \E id \in GEntityIds : \E flag \in BOOLEAN : GEntitySetActive(id, flag)

SpecGroups == Init /\ [][NextGroups]_vars

\* ====================================================================== claims
EntityOf(T, x) == {e \in T : e.key = x}

EntityIds(T, X) == {e.id : e \in {f \in T : f.key \in X}}

PartialDone(p) == pass[p].pc = "done" /\ ~pass[p].sync_all

FullDone(p) == pass[p].pc = "done" /\ pass[p].sync_all

\* the pairs (X, Y) of a pass: X was passed in, its config reported the super
\* entity Y, and Y had no Entity row when the pass started
UnmirroredSupers(p) ==
    {e \in pass[p].super_entities_by_ctype :
        e[1] \in pass[p].args /\ EntityOf(pass[p].pre.entities, e[2]) = {}}

\* C1: a partial sync of X that completes leaves an Entity row for every super
\* entity Y its config reported and that was not mirrored before, and exactly
\* one EntityRelationship row (sub = X's Entity, super = Y's Entity).
C1_ClosureCorrectness ==
    \A p \in Procs : PartialDone(p) =>
        \A e \in UnmirroredSupers(p) :
            /\ EntityOf(entities, e[2]) # {}
            /\ Cardinality({r \in rels :
                   /\ r.sub \in EntityIds(entities, {e[1]})
                   /\ r.sup \in EntityIds(entities, {e[2]})}) = 1

C1_Witness ==
    \E p \in Procs : PartialDone(p) /\ UnmirroredSupers(p) # {}

\* C2: a partial sync deletes an EntityRelationship row only if its sub entity
\* is the Entity of one of the instances that were passed in.
C2_PruningScope ==
    \A p \in Procs : PartialDone(p) =>
        \A r \in pass[p].pre.rels :
            r \notin rels => r.sub \in EntityIds(entities, pass[p].args)

\* C3: a partial sync never deletes an Entity row (every row that existed
\* before is still there under the same primary key), and the row of a passed
\* instance is updated in place.
C3_NoEntityDelete ==
    \A p \in Procs : (pass[p].pc # "idle" /\ ~pass[p].sync_all) =>
        /\ \A e \in pass[p].pre.entities :
              \E f \in entities : f.id = e.id /\ f.key = e.key
        /\ pass[p].pc = "done" =>
              \A e \in pass[p].pre.entities : e.key \in pass[p].args =>
                  \E f \in entities :
                      /\ f.id = e.id
                      /\ f.key = e.key
                      /\ f.display = get_display_name(e.key, ReadObj(e.key))
                      /\ f.meta = get_entity_meta(e.key, ReadObj(e.key))

C3_Witness ==
    \E p \in Procs : PartialDone(p) /\
        \E e \in pass[p].pre.entities :
            /\ e.key \in pass[p].args
            /\ e.display # get_display_name(e.key, ReadObj(e.key))

\* C4: after a full sync every Entity whose source row no longer exists is
\* inactive and is the sub entity of no relationship, and the Entity rows of
\* the source rows that still exist remain.
C4_FullSyncPrunes ==
    \A p \in Procs : FullDone(p) =>
        /\ \A e \in entities : ~src[e.key].exists =>
              ~e.active /\ ~\E r \in rels : r.sub = e.id
        /\ \A e \in pass[p].pre.entities : src[e.key].exists =>
              \E f \in entities : f.id = e.id /\ f.key = e.key

C4_Witness ==
    \E p \in Procs : FullDone(p) /\
        \E e \in pass[p].pre.entities :
            /\ ~src[e.key].exists
            /\ e.active
            /\ \E r \in pass[p].pre.rels : r.sub = e.id

\* the instances a pass is asked to mirror
Scope(p) ==
    IF pass[p].sync_all THEN {x \in SrcIds : src[x].exists} ELSE pass[p].args

Mirrors(e, x) ==
    /\ \E k \in kinds : /\ k.id = e.kind
                        /\ <<k.name, k.display>> = get_entity_kind(x, ReadObj(x))
    /\ e.display = get_display_name(x, ReadObj(x))
    /\ e.meta = get_entity_meta(x, ReadObj(x))
    /\ e.active = get_is_active(x, ReadObj(x))

\* C5: after a pass that ran with no concurrent writer, every instance in its
\* scope has exactly one Entity row, whose kind, display name, metadata and
\* active flag are what the config returns for the instance as the registered
\* queryset reads it.
C5_MirrorCorrectness ==
    \A p \in Procs : pass[p].pc = "done" =>
        \A x \in Scope(p) :
            /\ Cardinality(EntityOf(entities, x)) = 1
            /\ \A e \in EntityOf(entities, x) : Mirrors(e, x)

C5_Witness ==
    \E p \in Procs : pass[p].pc = "done" /\
        \E x \in Scope(p) : \E e \in EntityOf(pass[p].pre.entities, x) : ~Mirrors(e, x)

\* the Entity ids of the super entities the pass reported for x
ReportedSupers(p, x) ==
    EntityIds(entities, {e[2] : e \in {d \in pass[p].super_entities_by_ctype : d[1] = x}})

\* C6: after sync_entities(X) the EntityRelationship rows whose sub entity is
\* X's Entity are exactly the edges X's config reported in the pass, each one
\* once, and the stored edges that are no longer reported are gone.
C6_RelationshipsDerived ==
    \A p \in Procs : PartialDone(p) =>
        \A x \in pass[p].args :
            LET mine == {r \in rels : r.sub \in EntityIds(entities, {x})}
            IN /\ {r.sup : r \in mine} = ReportedSupers(p, x)
               /\ Cardinality(mine) = Cardinality(ReportedSupers(p, x))

C6_Witness ==
    \E p \in Procs : PartialDone(p) /\
        \E x \in pass[p].args :
            /\ ReportedSupers(p, x) = {}
            /\ \E r \in pass[p].pre.rels : r.sub \in EntityIds(entities, {x})

\* C7: the same sync run twice in a row with no source change in between:
\* the second pass creates, changes and deletes no row of the three tables
\* and sends no activation event.
C7_Idempotence ==
    \A p \in Procs : (pass[p].pc = "done" /\ pass[p].repeat) =>
        /\ entities = pass[p].pre.entities
        /\ rels = pass[p].pre.rels
        /\ kinds = pass[p].pre.kinds
        /\ pass[p].events = <<>>

C7_Witness ==
    \E p \in Procs :
        /\ pass[p].pc = "done"
        /\ pass[p].repeat
        /\ rels # {}
        /\ \E e \in entities : ~e.active

\* ------------------------------------------------------------ concurrent passes
\* C8: when two sync passes run concurrently, no reachable state has each
\* pass waiting for a row lock the other holds.
C8_NoDeadlock == \A p \in Procs : \A q \in Procs : ~Deadlocked(p, q)

\* both processes have completed a partial sync of the same single instance
\* and neither has returned yet
SameSubPartials ==
    /\ \A p \in Procs : PartialDone(p)
    /\ pass[1].args = pass[2].args
    /\ Cardinality(pass[1].args) = 1

\* the pass that read the source last
LastReader == CHOOSE p \in Procs : \A q \in Procs : pass[q].started <= pass[p].started

\* the Entity ids a pass holds for the instances passed to it
ArgEntityIds(p) == {m[2] : m \in {n \in pass[p].entities_map : n[1] \in pass[p].args}}

\* C9: when two partial syncs of the same sub entity run concurrently and
\* both complete, the EntityRelationship rows of that sub entity are the edges
\* computed by the pass that read the source last.
C9_LastReaderWins ==
    SameSubPartials =>
        LET ids == ArgEntityIds(LastReader)
        IN {<<r.sub, r.sup>> : r \in {t \in rels : t.sub \in ids}}
           = {e \in pass[LastReader].entity_relationships : e[1] \in ids}

\* C10: in every reachable state, under any interleaving of concurrent sync
\* passes, there is at most one Entity row per (entity_type, entity_id) and at
\* most one EntityRelationship row per (sub_entity, super_entity).
C10_Uniqueness ==
    /\ \A e \in entities : \A f \in entities : e.key = f.key => e = f
    /\ \A r \in rels : \A t \in rels : (r.sub = t.sub /\ r.sup = t.sup) => r = t

\* two passes that both started on the empty mirror have both written the same
\* entity and the same relationship, and both are complete
C10_Witness ==
    /\ \A p \in Procs : pass[p].pc = "done" /\ pass[p].pre.entities = {}
    /\ pass[1].entities_map \cap pass[2].entities_map # {}
    /\ pass[1].entity_relationships \cap pass[2].entity_relationships # {}
    /\ \E r \in rels : <<r.sub, r.sup>> \in pass[1].entity_relationships

\* ------------------------------------------------------------ failing phases
NoPendingWrites(p) == pass[p].ins = {} /\ pass[p].upd = {} /\ pass[p].del = {}

\* the table a phase writes is as it was when the pass started
PhaseTableUntouched(p, tab) ==
    /\ tab = "K" => kinds = pass[p].pre.kinds
    /\ tab = "E" => entities = pass[p].pre.entities
    /\ tab = "R" => rels = pass[p].pre.rels

\* the rows the phases before tab committed are in their tables, and the
\* tables of the phases after tab are as they were when the pass started
OtherPhasesKept(p, tab) ==
    /\ tab = "K" => entities = pass[p].pre.entities /\ rels = pass[p].pre.rels
    /\ tab = "E" => pass[p].entity_kinds_map \subseteq kinds /\ rels = pass[p].pre.rels
    /\ tab = "R" => /\ pass[p].entity_kinds_map \subseteq kinds
                    /\ \A m \in pass[p].entities_map :
                           \E e \in entities : e.id = m[2] /\ e.key = m[1]

\* C11: each of the three phases is all-or-nothing: an attempt that raised
\* has left no write behind, and a phase that finally failed leaves its table
\* as it was before the phase, keeps the rows the earlier phases committed,
\* and stops the pass before the later phases.
C11_PhaseAtomicity ==
    \A p \in Procs :
        /\ (pass[p].num_tries > 0 /\ pass[p].pc \in {"kinds", "ent_begin", "rel_begin"}) =>
              /\ NoPendingWrites(p)
              /\ PhaseTableUntouched(p, CHOOSE t \in {"K", "E", "R"} :
                                             phase_start(t) = pass[p].pc)
        /\ pass[p].failed_in # "" =>
              /\ pass[p].pc = "failed"
              /\ NoPendingWrites(p)
              /\ PhaseTableUntouched(p, pass[p].failed_in)
              /\ OtherPhasesKept(p, pass[p].failed_in)

\* the relationship phase has failed for good after the entity phase
\* committed new rows
C11_Witness ==
    \E p \in Procs :
        /\ pass[p].failed_in = "R"
        /\ pass[p].entity_relationships # {}
        /\ entities # pass[p].pre.entities

\* C13: a wrapped method that raises OperationalError on every attempt is
\* invoked num_retries + 1 = 6 times, and then the OperationalError is raised.
C13_RetryBound ==
    \A p \in Procs :
        /\ pass[p].attempts <= num_retries + 1
        /\ pass[p].error = "OperationalError" =>
              pass[p].pc = "failed" /\ pass[p].attempts = num_retries + 1

C13_Witness ==
    \E p \in Procs : pass[p].error = "OperationalError" /\ pass[p].attempts = 6

\* C14: an exception that is not an OperationalError is not retried: it
\* leaves the wrapper from the invocation that raised it, so a method whose
\* first invocation raises it has been invoked once.
C14_OtherErrorPropagates ==
    \A p \in Procs : pass[p].error = "IntegrityError" =>
        /\ pass[p].pc = "failed"
        /\ pass[p].attempts = pass[p].num_tries + 1

C14_Witness ==
    \E p \in Procs :
        pass[p].error = "IntegrityError" /\ pass[p].num_tries = 0 /\ pass[p].attempts = 1

\* ------------------------------------------------------------------ snapshot
\* the teams the written metadata of account x names
MirroredTeams(p, x) == get_entity_meta(x, pass[p].model_objs_map[x])[4]

\* the teams the written relationships of account x point at
RelatedTeams(p, x) ==
    {e[2] : e \in {d \in pass[p].super_entities_by_ctype :
                       d[1] = x /\ d[2][1] = CT_Team}}

\* C12: the Entity rows and the EntityRelationship rows a successful pass
\* wrote come from one state of the source, even if the source changes while
\* the pass runs: the team of the relationship written for an account is the
\* team its mirrored metadata was computed from.
C12_ConsistentSnapshot ==
    \A p \in Procs : pass[p].pc = "done" =>
        \A x \in pass[p].model_ids_to_sync :
            x[1] = CT_Account => MirroredTeams(p, x) = RelatedTeams(p, x)

\* ------------------------------------------------------ transitive expansion
\* C20: the instances a partial sync upserts are closed under the super
\* entity relation: the super entities the configs report for an upserted
\* instance are upserted as Entity rows in the same pass.
C20_TransitiveExpansion ==
    \A p \in Procs : PartialDone(p) =>
        \A e \in get_super_entities(pass[p].model_objs_map) :
            e[1] \in pass[p].model_ids_to_sync =>
                \E m \in pass[p].entities_map : m[1] = e[2]

\* a decorated function of the kind is running: entered and not yet in its
\* finally
Running(kind) ==
    \E i \in 1..Len(caller.stack) :
        /\ caller.stack[i].kind = kind
        /\ ~(i = Len(caller.stack) /\ caller.pc = "flush")

\* C15: while a function decorated with defer_entity_syncing is running, a
\* nested decorated function included, no sync pass runs in the caller's
\* process, so syncing writes nothing to the three tables.
C15_DeferralRunsNoPass ==
    Running("defer") => pass[1].pc = "idle"

\* C16: the deferral that ended last made one flush call if a request was
\* buffered while its function ran, and none if no request was.
C16_OneFlushCall ==
    caller.flushed.valid =>
        (caller.flushed.called <=> Len(caller.flushed.log) > 0)

\* the instance most recently passed for key x in the requests of a log
latest(log, x) ==
    LET i == CHOOSE j \in 1..Len(log) :
                 /\ x \in log[j].X
                 /\ \A k \in (j + 1)..Len(log) : x \notin log[k].X
    IN (CHOOSE e \in log[i].objs : e[1] = x)[2]

\* C17: the flush call of the deferral that ended last is a full sync if a
\* zero-argument request was buffered while its function ran; otherwise it
\* passes, for each key requested, the instance most recently passed, and
\* nothing else.
C17_FlushArguments ==
    LET log == caller.flushed.log
        keys == UNION {log[i].X : i \in 1..Len(log)}
    IN (caller.flushed.valid /\ caller.flushed.called) =>
           IF \E i \in 1..Len(log) : log[i].X = {}
           THEN caller.flushed.full
           ELSE /\ ~caller.flushed.full
                /\ caller.flushed.objs = {<<x, latest(log, x)>> : x \in keys}

\* C18: when a function decorated with defer_entity_syncing has exited,
\* whether it returned, raised, or its flush sync raised, sync_entities.defer
\* is False and sync_entities.buffer is empty.
C18_DeferExitResets ==
    caller.exited = "defer" =>
        ~caller.defer /\ caller.buffer = EmptyBuffer

\* C19: while a function decorated with suppress_entity_syncing is running,
\* a nested decorated function included, no sync pass runs and no request is
\* buffered; after its exit sync_entities.suppress is False.
C19_Suppression ==
    /\ Running("suppress") => pass[1].pc = "idle"
    /\ \A i \in 1..Len(caller.stack) :
           caller.stack[i].kind = "suppress" => caller.stack[i].log = <<>>
    /\ caller.exited = "suppress" => ~caller.suppress

\* C21: a pass whose ids to sync name a row that the fetch does not return
\* completes without raising: no pass ends in the KeyError of the lookup of
\* the ids to sync.
C21_VanishedReferences ==
    \A p \in Procs : pass[p].error # "KeyError"

\* C22: there is one EntityKind row for every kind name that was resolved,
\* however many instances and passes resolved it, and a pass in which
\* several instances resolve the same name completes.
C22_KindDedup ==
    /\ \A k1, k2 \in kinds : k1.name = k2.name => k1 = k2
    /\ pass[1].failed_in # "K"
    /\ pass[1].pc = "done" =>
           \A i \in 1..Len(pass[1].rows) :
               \E k \in kinds : k.name = pass[1].rows[i][1]

\* the stored inactive kinds that a pass resolves
InactiveResolved(p) ==
    {k \in pass[p].pre.kinds :
        /\ ~k.active
        /\ \E x \in pass[p].model_ids_to_sync :
               get_entity_kind(x, pass[p].model_objs_map[x])[1] = k.name}

\* C23: a pass deletes no EntityKind row and changes no is_active flag; a
\* pass that resolves a kind stored as inactive does not fail, creates no
\* second row of that name, and writes its entities with the stored row as
\* their kind.
C23_InactiveKindUsable ==
    \A p \in Procs :
        /\ pass[p].pc # "idle" =>
               \A k \in pass[p].pre.kinds :
                   \E k2 \in kinds : k2.id = k.id /\ k2.active = k.active
        /\ InactiveResolved(p) # {} =>
               /\ pass[p].pc # "failed"
               /\ \A k \in InactiveResolved(p) : \A k2 \in kinds :
                      k2.name = k.name => k2.id = k.id
               /\ pass[p].pc = "done" =>
                      \A k \in InactiveResolved(p) : \A m \in pass[p].entities_map :
                          get_entity_kind(m[1], pass[p].model_objs_map[m[1]])[1] = k.name
                              => \A e \in entities : e.id = m[2] => e.kind = k.id

C23_Witness ==
    /\ pass[1].pc = "done"
    /\ InactiveResolved(1) # {}
    /\ \E k \in InactiveResolved(1) : \E m \in pass[1].entities_map :
           \E e \in entities : e.id = m[2] /\ e.kind = k.id

\* the entity phase of the pass has returned
AfterEntityPhase(p) == pass[p].pc \in {"rel_begin", "rel_lock", "rel_delete", "done"}

\* the ids the pass has sent with the flag
Reported(p, flag) ==
    UNION {Range(ev.instance_ids) :
              ev \in {v \in Range(pass[p].events) : v.is_active = flag}}

WasActive(p, id) == \E e \in pass[p].pre.entities : e.id = id /\ e.active

IsActive(id) == \E e \in entities : e.id = id /\ e.active

C25_ActivationSends ==
    \A p \in Procs :
        LET ev == pass[p].events
        IN /\ Len(ev) <= 2
           /\ \A i \in 1..Len(ev) :
                  /\ ev[i].sender = "Entity"
                  /\ ev[i].instance_ids # <<>>
                  /\ \A j, k \in 1..Len(ev[i].instance_ids) :
                         j < k => ev[i].instance_ids[j] < ev[i].instance_ids[k]
           /\ Len(ev) = 2 => ev[1].is_active /\ ~ev[2].is_active

C25_Witness ==
    /\ Len(pass[1].events) = 2
    /\ hist.outage = <<pass[1].started, "E">>
    /\ \E i \in 1..2 : Len(pass[1].events[i].instance_ids) = 2

\* the first register_entity call for the model, among the calls so far
FirstRegistration(model) ==
    LET calls == registry.calls
        i == CHOOSE j \in 1..Len(calls) :
                 /\ calls[j].arg.model = model
                 /\ \A k \in 1..(j - 1) : calls[k].arg.model # model
    IN calls[i]

Registered == {registry.calls[i].arg.model : i \in 1..Len(registry.calls)} \ {""}

\* how many times the list of the watched model holds the watcher
Occurrences(w, tuple) ==
    Cardinality({i \in 1..Len(registry._entity_watching[w]) :
                    registry._entity_watching[w][i] = tuple})

ConfigClass(name) == CHOOSE c \in ConfigClasses : c.name = name

\* C27: after any sequence of register_entity calls the registry holds, for
\* every model registered, the queryset and the config instance of the first
\* call for the model, and every watcher of that config once; nothing is
\* held for a model that was never registered.
C27_RegisterIdempotent ==
    /\ \A m \in RegModels \ Registered : registry._entity_registry[m] = Unregistered
    /\ \A m \in Registered :
           LET first == FirstRegistration(m)
           IN registry._entity_registry[m] =
                  [qset |-> first.arg.qset, config |-> first.config,
                   instance |-> first.instance]
    /\ \A w \in WatchedModels : \A m \in RegModels : \A g \in {"g1", "g2", "g3"} :
           Occurrences(w, <<m, g>>) =
               IF /\ m \in Registered
                  /\ <<w, g>> \in Range(ConfigClass(FirstRegistration(m).config).watching)
               THEN 1 ELSE 0

C27_Witness ==
    /\ \E i, j \in 1..Len(registry.calls) :
           /\ i < j
           /\ registry.calls[i].arg.model = registry.calls[j].arg.model
           /\ registry.calls[i].arg.model # ""
           /\ registry.calls[i].config # registry.calls[j].config
           /\ registry.calls[i].arg.qset # registry.calls[j].arg.qset
           /\ registry.calls[i].config = "C2"

\* the lists among the getter results that are not empty, in order
RECURSIVE NonEmptyResults(_)
NonEmptyResults(extracted) ==
    IF extracted = <<>> THEN <<>>
    ELSE (IF Head(extracted)[2] # <<>> THEN <<Head(extracted)[2]>> ELSE <<>>)
         \o NonEmptyResults(Tail(extracted))

\* C26: sync_entities_watching goes through the watchers registered for the
\* class of the instance in registration order, and its sync_entities calls
\* are, in that order, the non-empty lists the getters returned, each passed
\* as returned; a watcher whose getter returns nothing, and a class without
\* watchers, get no call.
C26_WatchingCalls ==
    /\ watch.calls = NonEmptyResults(watch.extracted)
    /\ watch.pc = "loop" => watch.watchers = registry._entity_watching[watch.class]
    /\ \A i \in 1..Len(watch.extracted) : watch.extracted[i][1] = watch.watchers[i]
    /\ watch.pc = "returned" => Len(watch.extracted) = Len(watch.watchers)
    /\ watch.watchers = <<>> => watch.calls = <<>>

C26_Witness ==
    /\ watch.pc = "returned"
    /\ Len(watch.watchers) = 2
    /\ \E i, j \in 1..2 :
           /\ watch.extracted[i][2] = <<>>
           /\ Len(watch.extracted[j][2]) = 2
    /\ Len(watch.calls) = 1

\* the last upsert call has returned
Returned == db.ret.valid /\ db.ret.error = ""

SubmittedKeys == {db.ret.rows[i].key : i \in 1..Len(db.ret.rows)}

\* C28: after upsert(queryset, rows, .., sync=True) the rows the queryset
\* selects are the rows of the submitted keys; the rows of its scope that
\* were not submitted are in the third list returned and are selected no
\* longer, and the rows outside its scope that were not submitted are as
\* they were.
C28_UpsertSync ==
    (Returned /\ db.ret.sync) =>
        /\ {r.key : r \in queryset(db.ret.qset, db.rows)} = SubmittedKeys
        /\ \A r \in queryset(db.ret.qset, db.ret.pre) :
               r.key \notin SubmittedKeys =>
                   /\ r.id \in db.ret.deleted
                   /\ \A t \in queryset(db.ret.qset, db.rows) : t.id # r.id
        /\ \A r \in db.ret.pre \ queryset(db.ret.qset, db.ret.pre) :
               r.key \notin SubmittedKeys => r \in db.rows

\* the rows the last call reported as created or updated
ReportedRows == db.ret.created \o db.ret.updated

StoredBefore(key) == {r \in db.ret.pre : r.key = key}

\* every submitted row is reported once, as created if its key was not
\* stored before the call and as updated otherwise
ReportsEveryRow ==
    \A i \in 1..Len(db.ret.rows) :
        LET key == db.ret.rows[i].key
        IN /\ Cardinality({j \in 1..Len(ReportedRows) : ReportedRows[j].row.key = key}) = 1
           /\ (StoredBefore(key) = {}) =>
                  \E j \in 1..Len(db.ret.created) : db.ret.created[j].row.key = key
           /\ (StoredBefore(key) # {}) =>
                  \E j \in 1..Len(db.ret.updated) : db.ret.updated[j].row.key = key

\* a row stored before the call under a submitted key has the submitted
\* values in the update fields and its stored values elsewhere
UpdatesOnlyUpdateFields ==
    \A i \in 1..Len(db.ret.rows) : \A r \in StoredBefore(db.ret.rows[i].key) :
        \E n \in db.rows :
            /\ n.id = r.id /\ n.key = r.key
            /\ n.val = IF "val" \in db.ret.update_fields THEN db.ret.rows[i].val ELSE r.val
            /\ n.active = IF "active" \in db.ret.update_fields
                          THEN db.ret.rows[i].active ELSE r.active

\* C29 as stated: a call of upsert that returns reports every submitted
\* row exactly once, as created if no row of its key was stored before the
\* call and as updated otherwise, and an updated row takes the submitted
\* values in exactly the update fields.
C29_UpsertReportsAlways ==
    Returned => (ReportsEveryRow /\ UpdatesOnlyUpdateFields)

\* C29: a call of upsert that returns and was made with returning or with
\* sync reports every submitted row exactly once, as created if no row of
\* its key was stored before the call and as updated otherwise; whatever
\* returning is, an updated row takes the submitted values in exactly the
\* update fields and keeps its pk and every other column.
C29_UpsertConflict ==
    Returned =>
        /\ (db.ret.returning \/ db.ret.sync) => ReportsEveryRow
        /\ UpdatesOnlyUpdateFields

C29_Witness ==
    /\ Returned /\ db.ret.returning /\ ~db.ret.sync
    /\ Len(db.ret.created) = 1 /\ Len(db.ret.updated) = 1
    /\ db.ret.update_fields = {"val"}
    /\ \E r \in db.ret.pre : r.key = db.ret.updated[1].row.key
                             /\ r.val # db.ret.updated[1].row.val /\ ~r.active

\* the union the three shapes of membership rows stand for, over the
\* entities of E: the entity of a row (X, NULL), the entities of kind K for
\* a row (NULL, K), the direct sub entities of X of kind K for a row (X, K)
\* with X in E
ShapesUnion(group, E) ==
    UNION {IF m.entity # 0 /\ m.kind = 0 THEN {e.id : e \in {a \in E : a.id = m.entity}}
           ELSE IF m.entity = 0 THEN {e.id : e \in {a \in E : a.kind = m.kind}}
           ELSE {e.id : e \in {a \in E : /\ a.kind = m.kind
                                          /\ <<m.entity, a.id>> \in groups.relationships
                                          /\ \E x \in E : x.id = m.entity}}
           : m \in {x \in groups.memberships : x.group = group}}

\* a call get_all_entities() with its default arguments has returned
DefaultCall ==
    /\ groups.ret.valid /\ groups.ret.passed = "None"
    /\ groups.ret.is_active = "True" /\ ~groups.ret.return_models

\* C30: get_all_entities() returns the union, over the membership rows of
\* the group, of what the three shapes stand for, the entities taken either
\* as the active entities in every shape or as all the entities in every
\* shape; it returns the empty set for a group with no membership rows and
\* for a group that the membership cache passed does not hold.
C30_GroupUnion ==
    /\ DefaultCall =>
           \/ groups.ret.ids = ShapesUnion(groups.ret.group, Entity_objects)
           \/ groups.ret.ids = ShapesUnion(groups.ret.group, groups.entities)
    /\ (groups.ret.valid /\ groups.ret.passed = "others") => groups.ret.ids = {}
    /\ (groups.ret.valid /\ \A m \in groups.memberships : m.group # groups.ret.group)
           => groups.ret.ids = {}

\* a call get_all_entities(is_active=flag) that builds its own caches and
\* returns ids has returned
PolicyCall(flag) ==
    /\ groups.ret.valid /\ groups.ret.passed = "None"
    /\ groups.ret.is_active = flag /\ ~groups.ret.return_models

\* C31: get_all_entities(is_active=True) returns ids of active entities
\* only, whichever membership shape contributed them; with is_active=False
\* it returns ids of inactive entities only; with is_active=None it returns
\* the union of the shapes over all the entities, active or not.
C31_GroupActivityPolicy ==
    /\ PolicyCall("True") => \A id \in groups.ret.ids : GEntity(id).is_active
    /\ PolicyCall("False") => \A id \in groups.ret.ids : ~GEntity(id).is_active
    /\ PolicyCall("None") =>
           groups.ret.ids = ShapesUnion(groups.ret.group, groups.entities)

InEntityPhase(p) == pass[p].pc \in {"ent_begin", "ent_lock", "ent_upsert", "ent_delete"}

InRelationshipPhase(p) == pass[p].pc \in {"rel_begin", "rel_lock", "rel_delete"}

\* C32: while a pass is in its entity phase the kinds it resolved are
\* committed EntityKind rows and every Entity row it has written references
\* a committed EntityKind row; while it is in its relationship phase the entities its
\* entity phase returned are committed Entity rows and every
\* EntityRelationship row it has written references two of their pks; no
\* write of an earlier phase is pending in a later one.
C32_PhaseOrdering ==
    \A p \in Procs :
        /\ InEntityPhase(p) =>
               /\ pass[p].tab \in {"", "E"}
               /\ pass[p].entity_kinds_map \subseteq kinds
               /\ \A r \in pass[p].ins \cup pass[p].upd :
                      \E k \in kinds : k.id = r.kind
        /\ InRelationshipPhase(p) =>
               /\ pass[p].tab \in {"", "R"}
               /\ \A m \in pass[p].entities_map :
                      \E e \in entities : e.id = m[2] /\ e.key = m[1]
               /\ \A r \in pass[p].ins :
                      /\ \E m \in pass[p].entities_map : m[2] = r.sub
                      /\ \E m \in pass[p].entities_map : m[2] = r.sup

C32_Witness ==
    /\ InRelationshipPhase(1)
    /\ \E r \in pass[1].ins : \E e \in entities :
           /\ e.id = r.sub
           /\ \A o \in pass[1].pre.entities : o.id # e.id
           /\ \A k \in pass[1].pre.kinds : k.id # e.kind

\* C33: a pass that has sent an activation event has completed its
\* relationship phase.
C33_EventsAfterRelationships ==
    \A p \in Procs : pass[p].events # <<>> => pass[p].pc = "done"

\* the stored rows the open transaction of p has updated or deleted
WrittenRows(p) == {u.id : u \in pass[p].upd} \cup pass[p].del

\* C34: every stored row the transaction of a phase has updated or deleted
\* is a row the explicit SELECT .. FOR UPDATE of that transaction has locked
\* before, also in a phase that submits no row and only deletes.
C34_LockBeforeWrite ==
    \A p \in Procs : WrittenRows(p) \subseteq pass[p].selected

\* the id of the stored row of a set of hits, 0 when there is none
StoredId(hit) == IF hit = {} THEN 0 ELSE (CHOOSE r \in hit : TRUE).id

\* ids are the ids of the stored rows a list of rows to upsert hits, in the
\* order of the list
Ascending(ids) ==
    \A i, j \in 1..Len(ids) : (i < j /\ ids[i] # 0 /\ ids[j] # 0) => ids[i] < ids[j]

\* C35: the stored rows an upsert is about to write, taken in the order in
\* which the upsert writes them, are in the order in which the explicit
\* SELECT .. ORDER BY id FOR UPDATE of the phase has locked them, that is in
\* ascending id order.
C35_LockOrderIsWriteOrder ==
    \A p \in Procs :
        LET rows == pass[p].rows
        IN /\ pass[p].pc = "ent_upsert" =>
                  Ascending([i \in 1..Len(rows) |->
                      StoredId({r \in entities : r.key = rows[i]})])
           /\ (pass[p].pc = "rel_lock" /\ pass[p].todo = <<>>) =>
                  Ascending([i \in 1..Len(rows) |->
                      StoredId({r \in rels : r.sub = rows[i][1] /\ r.sup = rows[i][2]})])
           /\ (pass[p].pc = "kinds_tx" /\ pass[p].todo = <<>>) =>
                  Ascending([i \in 1..Len(rows) |->
                      StoredId({r \in kinds : r.name = rows[i][1]})])

\* the stored kinds whose (name, display_name) is a pair pass p resolved
StoredAsResolved(p) ==
    {k \in kinds : <<k.name, k.display>> \in entity_kind_tuples_to_sync(pass[p])}

\* C36: the transaction of the kind phase holds no row lock on, and has
\* written no row of, an EntityKind whose stored (name, display_name) is a
\* pair the pass resolved.
C36_UnchangedKindsUntouched ==
    \A p \in Procs :
        pass[p].tab = "K" =>
            \A k \in StoredAsResolved(p) :
                /\ k.id \notin pass[p].locks
                /\ \A u \in pass[p].upd : u.id # k.id

\* C37: the rows of the statement an upsert call submits are in ascending
\* order of their unique field and no two of them have the same unique
\* field, whatever list the caller passed.
C37_SortedAndDeduplicated ==
    db.ret.valid =>
        \A i, j \in 1..Len(db.ret.submitted) :
            i < j => db.ret.submitted[i].key < db.ret.submitted[j].key

\* C38: a pass that syncs everything was started by an entry point that was
\* not asked to sync specific instances.
C38_FullSyncOnlyOnRequest ==
    \A p \in Procs : (pass[p].pc # "idle" /\ pass[p].sync_all) => ~pass[p].specific

\* a step in which the caller makes one sync_entities call
RequestStep == caller'.ncalls = caller.ncalls + 1

\* a step in which the finally of defer_entity_syncing runs up to its flush
\* call: the innermost decorated function is a deferred one and it is left,
\* or its flush pass is started
DeferExitStep ==
    /\ caller.pc = "run"
    /\ caller.stack # <<>> /\ Top(caller.stack).kind = "defer"
    /\ Len(caller'.stack) < Len(caller.stack) \/ caller'.pc = "flush"

\* C39: a sync_entities call made while sync_entities.suppress and
\* sync_entities.defer are both set starts no pass and leaves the buffer as
\* it was, and the finally of a deferral that runs while
\* sync_entities.suppress is set starts no pass and leaves the buffer empty.
C39_SuppressionFirst ==
    [][/\ (RequestStep /\ caller.suppress /\ caller.defer) =>
            /\ pass' = pass
            /\ caller'.pc = "run"
            /\ caller'.buffer = caller.buffer
       /\ (DeferExitStep /\ caller.suppress) =>
            /\ pass' = pass
            /\ caller'.pc = "run"
            /\ caller'.buffer = EmptyBuffer]_vars

\* a deferral has just been left under suppression with requests in the
\* buffer: its flush call was made, no pass runs, the buffer is empty
C39_Witness ==
    /\ caller.exited = "defer"
    /\ caller.suppress
    /\ caller.flushed.valid /\ caller.flushed.called
    /\ caller.buffer = EmptyBuffer
    /\ pass[1].pc = "idle"

\* C40: the Entity rows at both ends of a relationship row a pass has
\* inserted exist, and no relationship phase ends in the IntegrityError of a
\* missing sub or super entity.
C40_EndpointsExist ==
    \A p \in Procs :
        /\ pass[p].tab = "R" => \A r \in pass[p].ins : endpoints_exist(entities, r)
        /\ ~(pass[p].failed_in = "R" /\ pass[p].error = "IntegrityError")

====
